---- MODULE Spec2Model ----
(***************************************************************************)
(* PhysiCOOL: the multi-level grid sweep of physicool/optimization.py      *)
(* (class MultiSweep).  The sweep is modelled as a sequential process:     *)
(* the configuration calls made on an idle instance, then run_sweep, whose *)
(* loop is followed level by level and grid cell by grid cell.             *)
(*                                                                         *)
(* Numbers.  The code computes in IEEE doubles; the model computes in      *)
(* exact rationals [n |-> numerator, d |-> denominator > 0] in lowest      *)
(* terms, so equalities between grid values are those of the real-number   *)
(* formulas the code evaluates.                                            *)
(***************************************************************************)
EXTENDS Integers, Sequences, FiniteSets

VARIABLES
    n_levels,            \* self.n_levels
    npdir,               \* self.npdir
    ppdir,               \* self.ppdir
    data,                \* self.data, the reference output <<t0, t1>>
    results,             \* self.results[level][i][j]
    x,                   \* self.x, indexed 0..npdir-1
    y,                   \* self.y, indexed 0..npdir-1
    parameters_in_sweep, \* self.parameters_in_sweep, a dict label -> value
    level,               \* self.level
    opt_point,           \* self.opt_point, <<p0, p1>>
    param_labels,        \* self.param_labels, <<label1, label2>>
    param_bounds,        \* self.param_bounds, <<<<lo, hi>>, <<lo, hi>>>>
    pc,                  \* position of the caller / of run_sweep
    i,                   \* compute_objective: outer loop index
    j,                   \* compute_objective: inner loop index
    error,               \* the exception that left run_sweep, or "none"
    returned,            \* the pair run_sweep returned (meaningful when pc = "done")
    calls,               \* history: the black-box invocations, in order
    trace,               \* history: one record per level whose grid was computed
    fit,                 \* history: the point the caller supplied (set_fit_value)
    box,                 \* PhysiCellBlackBox and its working directory (a record)
    updater,             \* a cell-data updater call: its arguments and result (a record)
    xml                  \* an ElementTree and the pcxml call made on it (a record)

vars == <<n_levels, npdir, ppdir, data, results, x, y, parameters_in_sweep,
          level, opt_point, param_labels, param_bounds, pc, i, j, error,
          returned, calls, trace, fit, box, updater, xml>>

(***************************************************************************)
(* Bounds of the model.                                                    *)
(***************************************************************************)
MaxLevels == 2
MaxNpdir == 3
MaxPpdir == 2
MaxReplicates == 2
MaxFiles == 2
MaxRuns == 2

(***************************************************************************)
(* Exact rational arithmetic.                                              *)
(***************************************************************************)
Abs(a) == IF a < 0 THEN -a ELSE a

RECURSIVE GCD(_, _)
GCD(a, b) == IF b = 0 THEN a ELSE GCD(b, a % b)

LCM(a, b) == (a \div GCD(a, b)) * b

Norm(n, d) ==
    IF n = 0 THEN [n |-> 0, d |-> 1]
    ELSE LET g == GCD(Abs(n), d) IN [n |-> n \div g, d |-> d \div g]

Rat(k) == [n |-> k, d |-> 1]
Zero == Rat(0)

RAdd(a, b) ==
    LET l == LCM(a.d, b.d)
    IN  Norm(a.n * (l \div a.d) + b.n * (l \div b.d), l)

RNeg(a) == [n |-> -a.n, d |-> a.d]

RSub(a, b) == RAdd(a, RNeg(b))

RMul(a, b) ==
    IF a.n = 0 \/ b.n = 0 THEN Zero
    ELSE LET g1 == GCD(Abs(a.n), b.d)
             g2 == GCD(Abs(b.n), a.d)
         IN  Norm((a.n \div g1) * (b.n \div g2), (a.d \div g2) * (b.d \div g1))

RLt(a, b) ==
    LET l == LCM(a.d, b.d)
    IN  a.n * (l \div a.d) < b.n * (l \div b.d)

RLe(a, b) == ~RLt(b, a)

(***************************************************************************)
(* Python values.                                                          *)
(***************************************************************************)
\* An optional bound: None, or a number.
None == [some |-> FALSE, v |-> 0]
Some(k) == [some |-> TRUE, v |-> k]

\* bool(b) for an optional number: None and 0 are falsy.
Truthy(b) == b.some /\ b.v # 0

\* any(pair) for a bound pair.
any(pair) == Truthy(pair[1]) \/ Truthy(pair[2])

\* d[k] = v on a dict.
DictSet(d, k, v) == [l \in (DOMAIN d) \cup {k} |-> IF l = k THEN v ELSE d[l]]

EmptyDict == [l \in {} |-> Zero]

(***************************************************************************)
(* numpy.                                                                  *)
(***************************************************************************)
\* np.linspace(start, stop, num, endpoint=False): steps of (stop - start) / num.
linspace_endpoint_excluded(start, stop, num) ==
    [k \in 0..(num - 1) |->
        RAdd(start, RMul(RSub(stop, start), Norm(k, num)))]

\* np.linspace(start, stop, num) for num >= 2: start + k * (stop - start) / (num - 1).
linspace(start, stop, num) ==
    [k \in 0..(num - 1) |->
        RAdd(start, RMul(RSub(stop, start), Norm(k, num - 1)))]

\* np.zeros((n, n)) and np.zeros((n, 1)).
ZeroMatrix(n) == [a \in 0..(n - 1) |-> [b \in 0..(n - 1) |-> Zero]]
ZeroVector(n) == [a \in 0..(n - 1) |-> Zero]

\* The row-major flattening np.argmin works on.
Flatten(m, n) == [k \in 0..(n * n - 1) |-> m[k \div n][k % n]]

\* The last index holding the minimum, instead of the first.
argmin_last(f) ==
    CHOOSE k \in DOMAIN f :
        /\ \A k2 \in DOMAIN f : RLe(f[k], f[k2])
        /\ \A k2 \in DOMAIN f : k2 > k => RLt(f[k], f[k2])

\* np.argmin of a flat array: the first index holding the minimum.
argmin(f) ==
    CHOOSE k \in DOMAIN f :
        /\ \A k2 \in DOMAIN f : RLe(f[k], f[k2])
        /\ \A k2 \in DOMAIN f : k2 < k => RLt(f[k], f[k2])

(***************************************************************************)
(* The inputs the caller chooses from.                                     *)
(***************************************************************************)
\* n_levels, npdir and ppdir given to MultiSweep(...).
LevelChoices == 1..MaxLevels
NpdirChoices == 2..MaxNpdir
PpdirChoices == 1..MaxPpdir

\* The reference data: scenario A's target and one that makes cells tie.
DataChoices == {<<4, 6>>, <<3, 3>>}

\* The coordinates given to set_fit_value.
FitChoices == {-2, 0, 2}

\* The bound pairs given to set_param_bounds; None for an omitted argument.
NoBounds == <<None, None>>
Bounds1Choices ==
    {NoBounds, <<Some(1), Some(3)>>, <<Some(0), None>>, <<None, Some(0)>>,
     <<Some(3), None>>}
Bounds2Choices == {NoBounds, <<Some(1), Some(3)>>}

\* The label pairs given to select_params.
LabelChoices == {<<"x", "y">>, <<"a", "b">>, <<"y", "x">>}

(***************************************************************************)
(* The collaborators: the black box of the spec's scenario A, which        *)
(* returns its two parameters, and compute_error.                          *)
(***************************************************************************)
\* self.model.run([p0, p1]) -> [p0, p1]
ModelRun(params) == params

\* compute_error: ((model_data - reference_data) ** 2).sum()
compute_error(model_data, reference_data) ==
    LET d1 == RSub(model_data[1], Rat(reference_data[1]))
        d2 == RSub(model_data[2], Rat(reference_data[2]))
    IN  RAdd(RMul(d1, d1), RMul(d2, d2))

(***************************************************************************)
(* MultiSweep.set_bounds                                                   *)
(***************************************************************************)
\* The same quotient by floor division.
FactorFloorDiv(pp, lvl) == Rat(pp \div (lvl * 2 + 1))

\* The same quotient turned into a product: a factor that grows with the level.
FactorGrows(pp, lvl) == Rat(pp * (lvl * 2 + 1))

\* Twice the quotient.
FactorDoubled(pp, lvl) == Norm(2 * pp, lvl * 2 + 1)

\* factor = self.ppdir / (self.level * 2 + 1)
Factor(pp, lvl) == Norm(pp, lvl * 2 + 1)

\* The limits with a window of absolute half-width factor around a zero centre.
LimitsAbsoluteAtZero(center, factor, bounds) ==
    LET min_limit == IF center = Zero THEN RNeg(factor)
                     ELSE RSub(center, RMul(factor, center))
        max_limit == IF center = Zero THEN factor
                     ELSE RAdd(center, RMul(factor, center))
    IN  IF any(bounds)
        THEN << IF bounds[1].some /\ RLt(min_limit, Rat(bounds[1].v))
                THEN Rat(bounds[1].v) ELSE min_limit,
                IF bounds[2].some /\ RLt(Rat(bounds[2].v), max_limit)
                THEN Rat(bounds[2].v) ELSE max_limit >>
        ELSE <<min_limit, max_limit>>

\* min_limit and max_limit of one parameter, after the clamping block.
Limits(center, factor, bounds) ==
    LET min_limit == RSub(center, RMul(factor, center))
        max_limit == RAdd(center, RMul(factor, center))
    IN  IF any(bounds)
        THEN << IF bounds[1].some /\ RLt(min_limit, Rat(bounds[1].v))
                THEN Rat(bounds[1].v) ELSE min_limit,
                IF bounds[2].some /\ RLt(Rat(bounds[2].v), max_limit)
                THEN Rat(bounds[2].v) ELSE max_limit >>
        ELSE <<min_limit, max_limit>>

\* The grid of parameter p (1 or 2) that set_bounds computes in the current state.
GridLimits(p) == Limits(opt_point[p], Factor(ppdir, level), param_bounds[p])
Grid(p) == linspace(GridLimits(p)[1], GridLimits(p)[2], npdir)

(***************************************************************************)
(* MultiSweep.get_new_params                                               *)
(***************************************************************************)
get_new_params_transposed ==
    LET I  == argmin(Flatten(results[level], npdir))
        ii == I \div npdir
        jj == I - npdir * ii
    IN  <<x[jj], y[ii]>>

\* The optimum with each coordinate taken from the other parameter's grid.
get_new_params_crossed ==
    LET I  == argmin(Flatten(results[level], npdir))
        ii == I \div npdir
        jj == I - npdir * ii
    IN  <<y[ii], x[jj]>>

get_new_params ==
    LET I  == argmin(Flatten(results[level], npdir))
        ii == I \div npdir
        jj == I - npdir * ii
    IN  <<x[ii], y[jj]>>

\* self.level += 1
NextLevelSkips(l) == l + 2

NextLevel(l) == l + 1

(***************************************************************************)
(* The parts of the system a sweep specification does not exercise.        *)
(***************************************************************************)
NoBox == [pc |-> "unused"]
NoUpdater == [pc |-> "unused"]
NoXml == [pc |-> "unused"]

(***************************************************************************)
(* Initial state: MultiSweep.__init__                                      *)
(***************************************************************************)
Init ==
    /\ n_levels \in LevelChoices
    /\ npdir \in NpdirChoices
    /\ ppdir \in PpdirChoices
    /\ data \in DataChoices
    /\ results = [l \in 0..(n_levels - 1) |-> ZeroMatrix(npdir)]
    /\ x = ZeroVector(npdir)
    /\ y = ZeroVector(npdir)
    /\ parameters_in_sweep = EmptyDict
    /\ level = 0
    /\ opt_point = <<Zero, Zero>>
    /\ param_labels = <<"x", "y">>
    /\ param_bounds = <<NoBounds, NoBounds>>
    /\ pc = "idle"
    /\ i = 0
    /\ j = 0
    /\ error = "none"
    /\ returned = <<Zero, Zero>>
    /\ calls = <<>>
    /\ trace = <<>>
    /\ fit = <<Zero, Zero>>
    /\ box = NoBox
    /\ updater = NoUpdater
    /\ xml = NoXml

(***************************************************************************)
(* Configuration calls on an idle instance.                                *)
(***************************************************************************)
set_fit_value ==
    /\ pc = "idle"
    /\ \E a \in FitChoices, b \in FitChoices :
          /\ opt_point' = <<Rat(a), Rat(b)>>
          /\ fit' = <<Rat(a), Rat(b)>>
    /\ UNCHANGED <<n_levels, npdir, ppdir, data, results, x, y,
                   parameters_in_sweep, level, param_labels, param_bounds,
                   pc, i, j, error, returned, calls, trace,
                   box, updater, xml>>

\* An argument left out, or passed as None.
NoneArg == <<>>

\* The argument stored as given: None stays None.
BoundsAsGiven(param) == param

\* if param is None: param = [None, None]
BoundsOrDefault(param) == IF param = NoneArg THEN NoBounds ELSE param

set_param_bounds ==
    /\ pc = "idle"
    /\ \E param1 \in Bounds1Choices \cup {NoneArg},
          param2 \in Bounds2Choices \cup {NoneArg} :
          param_bounds' = <<BoundsOrDefault(param1), BoundsOrDefault(param2)>>
    /\ UNCHANGED <<n_levels, npdir, ppdir, data, results, x, y,
                   parameters_in_sweep, level, opt_point, param_labels,
                   pc, i, j, error, returned, calls, trace, fit,
                   box, updater, xml>>

select_params ==
    /\ pc = "idle"
    /\ \E labels \in LabelChoices : param_labels' = labels
    /\ UNCHANGED <<n_levels, npdir, ppdir, data, results, x, y,
                   parameters_in_sweep, level, opt_point, param_bounds,
                   pc, i, j, error, returned, calls, trace, fit,
                   box, updater, xml>>

(***************************************************************************)
(* MultiSweep.run_sweep, step by step.                                     *)
(***************************************************************************)
\* The call: the figure is set up and the while loop is reached.
run_sweep ==
    /\ pc = "idle"
    /\ pc' = "loop"
    /\ UNCHANGED <<n_levels, npdir, ppdir, data, results, x, y,
                   parameters_in_sweep, level, opt_point, param_labels,
                   param_bounds, i, j, error, returned, calls, trace, fit,
                   box, updater, xml>>

\* while self.level < self.n_levels: run_level begins with set_bounds, and
\* compute_objective enters its loops.
run_level ==
    /\ pc = "loop"
    /\ level < n_levels
    /\ x' = Grid(1)
    /\ y' = Grid(2)
    /\ trace' = Append(trace, [center |-> opt_point,
                               factor |-> Factor(ppdir, level),
                               limits |-> <<GridLimits(1), GridLimits(2)>>,
                               x |-> Grid(1),
                               y |-> Grid(2)])
    /\ i' = 0
    /\ j' = 0
    /\ pc' = "cell"
    /\ UNCHANGED <<n_levels, npdir, ppdir, data, results, parameters_in_sweep,
                   level, opt_point, param_labels, param_bounds, error,
                   returned, calls, fit,
                   box, updater, xml>>

\* The dict after the two assignments of one pass of compute_objective's body.
CellParameters ==
    DictSet(DictSet(parameters_in_sweep, param_labels[1], x[i]),
            param_labels[2], y[j])

\* The list handed to self.model.run.
CellArguments == <<CellParameters["x"], CellParameters["y"]>>

\* One pass of compute_objective's loop body, the collaborators returning.
compute_objective ==
    /\ pc = "cell"
    /\ parameters_in_sweep' = CellParameters
    /\ IF {"x", "y"} \subseteq DOMAIN CellParameters
       THEN /\ calls' = Append(calls, [level |-> level, i |-> i, j |-> j,
                                       params |-> CellArguments])
            /\ results' = [results EXCEPT ![level][i][j] =
                              compute_error(ModelRun(CellArguments), data)]
            /\ IF j < npdir - 1
               THEN /\ j' = j + 1
                    /\ UNCHANGED <<i, pc>>
               ELSE IF i < npdir - 1
                    THEN /\ i' = i + 1
                         /\ j' = 0
                         /\ UNCHANGED pc
                    ELSE /\ pc' = "select"
                         /\ UNCHANGED <<i, j>>
            /\ UNCHANGED error
       ELSE \* self.parameters_in_sweep["x"] or ["y"]: KeyError
            /\ pc' = "raised"
            /\ error' = "KeyError"
            /\ UNCHANGED <<calls, results, i, j>>
    /\ UNCHANGED <<n_levels, npdir, ppdir, data, x, y, level, opt_point,
                   param_labels, param_bounds, returned, trace, fit,
                   box, updater, xml>>

\* A raising pass that undoes the cells written in the level.
compute_objective_raises_rollback ==
    /\ pc = "cell"
    /\ {"x", "y"} \subseteq DOMAIN CellParameters
    /\ parameters_in_sweep' = CellParameters
    /\ calls' = Append(calls, [level |-> level, i |-> i, j |-> j,
                               params |-> CellArguments])
    /\ results' = [results EXCEPT ![level] = ZeroMatrix(npdir)]
    /\ pc' = "raised"
    /\ error' = "Exception"
    /\ UNCHANGED <<n_levels, npdir, ppdir, data, x, y, level,
                   opt_point, param_labels, param_bounds, i, j, returned,
                   trace, fit, box, updater, xml>>

\* One pass of the loop body in which self.model.run (or compute_error on its
\* output) raises: the exception leaves run_sweep.
compute_objective_raises ==
    /\ pc = "cell"
    /\ {"x", "y"} \subseteq DOMAIN CellParameters
    /\ parameters_in_sweep' = CellParameters
    /\ calls' = Append(calls, [level |-> level, i |-> i, j |-> j,
                               params |-> CellArguments])
    /\ pc' = "raised"
    /\ error' = "Exception"
    /\ UNCHANGED <<n_levels, npdir, ppdir, data, results, x, y, level,
                   opt_point, param_labels, param_bounds, i, j, returned,
                   trace, fit,
                   box, updater, xml>>

\* The end of run_level: param1, param2 = self.get_new_params() and the two
\* assignments to self.opt_point.
store_optimum ==
    /\ pc = "select"
    /\ opt_point' = get_new_params
    /\ pc' = "advance"
    /\ UNCHANGED <<n_levels, npdir, ppdir, data, results, x, y,
                   parameters_in_sweep, level, param_labels, param_bounds,
                   i, j, error, returned, calls, trace, fit,
                   box, updater, xml>>

\* self.level += 1 in a variant that clears the level just completed.
advance_level_clearing ==
    /\ pc = "advance"
    /\ level' = NextLevel(level)
    /\ results' = [results EXCEPT ![level] = ZeroMatrix(npdir)]
    /\ pc' = "loop"
    /\ UNCHANGED <<n_levels, npdir, ppdir, data, x, y,
                   parameters_in_sweep, opt_point, param_labels, param_bounds,
                   i, j, error, returned, calls, trace, fit,
                   box, updater, xml>>

\* self.level += 1, back to the loop test.
advance_level ==
    /\ pc = "advance"
    /\ level' = NextLevel(level)
    /\ pc' = "loop"
    /\ UNCHANGED <<n_levels, npdir, ppdir, data, results, x, y,
                   parameters_in_sweep, opt_point, param_labels, param_bounds,
                   i, j, error, returned, calls, trace, fit,
                   box, updater, xml>>

\* The loop test fails: return self.opt_point[0], self.opt_point[1]
return_point ==
    /\ pc = "loop"
    /\ ~(level < n_levels)
    /\ returned' = opt_point
    /\ pc' = "done"
    /\ UNCHANGED <<n_levels, npdir, ppdir, data, results, x, y,
                   parameters_in_sweep, level, opt_point, param_labels,
                   param_bounds, i, j, error, calls, trace, fit,
                   box, updater, xml>>

Next ==
    \/ set_fit_value
    \/ set_param_bounds
    \/ select_params
    \/ run_sweep
    \/ run_level
    \/ compute_objective
    \/ compute_objective_raises
    \/ store_optimum
    \/ advance_level
    \/ return_point

Spec == Init /\ [][Next]_vars

TypeOK ==
    /\ pc \in {"idle", "loop", "cell", "select", "advance", "done", "raised"}
    /\ level \in 0..n_levels
    /\ i \in 0..(npdir - 1)
    /\ j \in 0..(npdir - 1)

(***************************************************************************)
(* Vocabulary of the properties.                                           *)
(***************************************************************************)
Cells == (0..(npdir - 1)) \X (0..(npdir - 1))

\* Cell c holds a minimum of the error matrix m.
IsMinCell(m, c) == \A c2 \in Cells : RLe(m[c[1]][c[2]], m[c2[1]][c2[2]])

\* pt is a grid point of (gx, gy) whose cell holds a minimum of m.
IsOptimumOf(pt, gx, gy, m) ==
    \E c \in Cells : pt = <<gx[c[1]], gy[c[2]]>> /\ IsMinCell(m, c)

\* The positions in calls of the invocations made at level l.
CallsAt(l) == {k \in 1..Len(calls) : calls[k].level = l}

(***************************************************************************)
(* C1                                                                      *)
(***************************************************************************)
C1_LevelStep ==
    level' # level =>
        /\ level' = level + 1
        /\ Len(trace) = level + 1
        /\ Cardinality(CallsAt(level)) = npdir * npdir
        /\ {<<calls[k].i, calls[k].j>> : k \in CallsAt(level)} = Cells
        /\ IsOptimumOf(opt_point, x, y, results[level])

C1_GridStep ==
    trace' # trace => Len(trace) = level /\ Len(trace') = level + 1

C1_Stop ==
    (pc = "loop" /\ level = n_levels) => pc' = "done"

C1_Return ==
    (pc' = "done" /\ pc # "done") =>
        /\ level = n_levels
        /\ Len(trace) = n_levels
        /\ returned' = opt_point
        /\ IsOptimumOf(opt_point, trace[n_levels].x, trace[n_levels].y,
                       results[n_levels - 1])

\* C1: run_sweep computes the grids of levels 0, 1, ..., n_levels-1 in that
\* order, each once; the level index changes only by +1 and only when every
\* cell of the current level has been evaluated and a minimal-error grid point
\* of that level is stored in opt_point; at level = n_levels the sweep returns
\* opt_point, the optimum of level n_levels-1.
C1_LevelsInOrder ==
    [][C1_LevelStep /\ C1_GridStep /\ C1_Stop /\ C1_Return]_vars

C1_Witness ==
    /\ pc = "done"
    /\ n_levels = 2
    /\ level = 2
    /\ Len(calls) = 2 * npdir * npdir

(***************************************************************************)
(* C3                                                                      *)
(***************************************************************************)
C3_Center ==
    \A L \in 1..Len(trace) :
        IF L = 1
        THEN trace[L].center = fit
        ELSE IsOptimumOf(trace[L].center, trace[L - 1].x, trace[L - 1].y,
                         results[L - 2])

\* C3: the centre of the grid of level 0 is the point the caller supplied, the
\* centre of the grid of level L >= 1 is a grid point of level L-1 whose error
\* in results[L-1] is minimal, and during a sweep opt_point changes only where
\* run_level stores the optimum of the level just evaluated.
C3_CenterIsPreviousOptimum ==
    /\ []C3_Center
    /\ [][opt_point' # opt_point => pc \in {"idle", "select"}]_vars

C3_Witness ==
    /\ Len(trace) = 2
    /\ trace[2].center # trace[1].center
    /\ trace[1].center = fit
    /\ fit # <<Zero, Zero>>

(***************************************************************************)
(* C2                                                                      *)
(***************************************************************************)
\* C2: when no black-box call and no error computation raises, run_sweep
\* ends by returning and has then invoked the black box exactly
\* n_levels * npdir * npdir times.
C2_ExactInvocations ==
    (pc \in {"done", "raised"} /\ error # "Exception") =>
        (pc = "done" /\ Len(calls) = n_levels * npdir * npdir)

(***************************************************************************)
(* C4, C5, C6: the grids of set_bounds                                     *)
(***************************************************************************)
GridOf(rec, p) == IF p = 1 THEN rec.x ELSE rec.y

\* C4: every grid value of every level lies within the bounds set for its
\* parameter: not below a lower bound that is set, not above an upper bound
\* that is set.
C4_GridWithinBounds ==
    \A L \in 1..Len(trace) : \A p \in {1, 2} : \A k \in 0..(npdir - 1) :
        LET v == GridOf(trace[L], p)[k]
            b == param_bounds[p]
        IN  /\ b[1].some => RLe(Rat(b[1].v), v)
            /\ b[2].some => RLe(v, Rat(b[2].v))

\* C5: each side of a bound pair is enforced on its own: a lower bound that is
\* not None replaces a low below it, an upper bound that is not None replaces a
\* high above it, whatever the bound's value and the other side.
C5_EachSideEnforced ==
    \A L \in 1..Len(trace) : \A p \in {1, 2} :
        LET c    == trace[L].center[p]
            f    == trace[L].factor
            low  == RSub(c, RMul(f, c))
            high == RAdd(c, RMul(f, c))
            b    == param_bounds[p]
        IN  /\ (b[1].some /\ RLt(low, Rat(b[1].v))) =>
                   trace[L].limits[p][1] = Rat(b[1].v)
            /\ (b[2].some /\ RLt(Rat(b[2].v), high)) =>
                   trace[L].limits[p][2] = Rat(b[2].v)

\* C6: each grid has exactly npdir values, evenly spaced, from the (clamped)
\* low to the (clamped) high, in ascending order.
C6_GridShape ==
    \A L \in 1..Len(trace) : \A p \in {1, 2} :
        LET g == GridOf(trace[L], p)
        IN  /\ DOMAIN g = 0..(npdir - 1)
            /\ g[0] = trace[L].limits[p][1]
            /\ g[npdir - 1] = trace[L].limits[p][2]
            /\ \A k \in 0..(npdir - 2) : RLe(g[k], g[k + 1])
            /\ \A k \in 0..(npdir - 3) :
                   RSub(g[k + 1], g[k]) = RSub(g[k + 2], g[k + 1])

C8_CellArguments ==
    /\ error # "KeyError"
    /\ \A k \in 1..Len(calls) :
          LET rec == trace[calls[k].level + 1]
          IN  calls[k].params = <<rec.x[calls[k].i], rec.y[calls[k].j]>>
    /\ \A k1, k2 \in 1..Len(calls) :
          (/\ calls[k1].level = calls[k2].level
           /\ calls[k1].i = calls[k2].i
           /\ calls[k1].j = calls[k2].j) => k1 = k2

ScenarioGrid == [k \in 0..2 |-> Rat(2 * k)]

ScenarioA(labels) ==
    /\ param_labels = labels
    /\ data = <<4, 6>>
    /\ n_levels = 1
    /\ npdir = 3
    /\ ppdir = 1
    /\ fit = <<Rat(2), Rat(2)>>
    /\ param_bounds = <<NoBounds, NoBounds>>

ScenarioAResult ==
    /\ pc = "done"
    /\ trace[1].x = ScenarioGrid
    /\ trace[1].y = ScenarioGrid
    /\ results[0][2][2] = Rat(4)
    /\ IsMinCell(results[0], <<2, 2>>)
    /\ returned = <<Rat(4), Rat(4)>>

\* C9: scenario A with the parameters named "a" and "b": both grids are
\* [0, 2, 4], the minimum of the error matrix is 4 at (4, 4), and run_sweep
\* returns (4, 4).
C9_ScenarioA ==
    (ScenarioA(<<"a", "b">>) /\ pc \in {"done", "raised"} /\ error # "Exception")
        => ScenarioAResult

(***************************************************************************)
(* C10                                                                     *)
(***************************************************************************)
\* c2 comes before c in row-major order (i outer, j inner).
Before(c2, c) == c2[1] < c[1] \/ (c2[1] = c[1] /\ c2[2] < c[2])

\* C10: the optimum stored for a level is the grid point of the first cell, in
\* row-major order, that holds the minimum of the level's error matrix.
C10_FirstMinimum ==
    pc = "advance" =>
        \E c \in Cells :
            /\ opt_point = <<x[c[1]], y[c[2]]>>
            /\ IsMinCell(results[level], c)
            /\ \A c2 \in Cells :
                  Before(c2, c) =>
                      RLt(results[level][c[1]][c[2]], results[level][c2[1]][c2[2]])

C10_Witness ==
    /\ pc = "advance"
    /\ \E c, c2 \in Cells :
          /\ Before(c, c2)
          /\ IsMinCell(results[level], c)
          /\ IsMinCell(results[level], c2)
          /\ x[c[1]] # x[c2[1]]
          /\ y[c[2]] # y[c2[2]]
          /\ opt_point = <<x[c[1]], y[c[2]]>>

(***************************************************************************)
(* The MultiSweep of physicool/physicool.py: the same class, except that   *)
(* set_bounds clamps the first parameter only and compute_objective hands  *)
(* the whole dict to the model.                                            *)
(***************************************************************************)
\* physicool.py set_bounds: min_limit, max_limit of parameter p.
LegacyGridLimits(p) ==
    IF p = 1
    THEN Limits(opt_point[1], Factor(ppdir, level), param_bounds[1])
    ELSE << RSub(opt_point[2], RMul(Factor(ppdir, level), opt_point[2])),
            RAdd(opt_point[2], RMul(Factor(ppdir, level), opt_point[2])) >>

LegacyGrid(p) == linspace(LegacyGridLimits(p)[1], LegacyGridLimits(p)[2], npdir)

\* The black box of scenario A given the mapping {label1: v1, label2: v2}.
ModelRunMapping(params, labels) == <<params[labels[1]], params[labels[2]]>>

legacy_run_level ==
    /\ pc = "loop"
    /\ level < n_levels
    /\ x' = LegacyGrid(1)
    /\ y' = LegacyGrid(2)
    /\ trace' = Append(trace, [center |-> opt_point,
                               factor |-> Factor(ppdir, level),
                               limits |-> <<LegacyGridLimits(1),
                                            LegacyGridLimits(2)>>,
                               x |-> LegacyGrid(1),
                               y |-> LegacyGrid(2)])
    /\ i' = 0
    /\ j' = 0
    /\ pc' = "cell"
    /\ UNCHANGED <<n_levels, npdir, ppdir, data, results, parameters_in_sweep,
                   level, opt_point, param_labels, param_bounds, error,
                   returned, calls, fit, box, updater, xml>>

legacy_compute_objective ==
    /\ pc = "cell"
    /\ parameters_in_sweep' = CellParameters
    /\ calls' = Append(calls, [level |-> level, i |-> i, j |-> j,
                               params |-> ModelRunMapping(CellParameters,
                                                          param_labels)])
    /\ results' = [results EXCEPT ![level][i][j] =
                      compute_error(ModelRunMapping(CellParameters,
                                                    param_labels), data)]
    /\ IF j < npdir - 1
       THEN /\ j' = j + 1
            /\ UNCHANGED <<i, pc>>
       ELSE IF i < npdir - 1
            THEN /\ i' = i + 1
                 /\ j' = 0
                 /\ UNCHANGED pc
            ELSE /\ pc' = "select"
                 /\ UNCHANGED <<i, j>>
    /\ UNCHANGED <<n_levels, npdir, ppdir, data, x, y, level, opt_point,
                   param_labels, param_bounds, error, returned, trace, fit,
                   box, updater, xml>>

NextLegacy ==
    \/ set_fit_value
    \/ set_param_bounds
    \/ select_params
    \/ run_sweep
    \/ legacy_run_level
    \/ legacy_compute_objective
    \/ store_optimum
    \/ advance_level
    \/ return_point

SpecLegacy == Init /\ [][NextLegacy]_vars

(***************************************************************************)
(* C11                                                                     *)
(***************************************************************************)
ScenarioBGridA == [k \in 0..2 |-> Rat(1 + k)]

\* C11: the grid of the second parameter is computed from its own centre and
\* its own bounds alone, by the rule used for the first parameter (bounds on
\* the first parameter leave it as it is), and in scenario B the grids are
\* [1, 2, 3] and [0, 2, 4].
C11_SecondParameterRule ==
    \A L \in 1..Len(trace) :
        /\ trace[L].limits[1] =
               Limits(trace[L].center[1], trace[L].factor, param_bounds[1])
        /\ trace[L].limits[2] =
               Limits(trace[L].center[2], trace[L].factor, param_bounds[2])
        /\ trace[L].y =
               linspace(trace[L].limits[2][1], trace[L].limits[2][2], npdir)
        /\ (/\ npdir = 3
            /\ trace[L].center = <<Rat(2), Rat(2)>>
            /\ trace[L].factor = Rat(1)
            /\ param_bounds = << <<Some(1), Some(3)>>, NoBounds >>) =>
               (trace[L].x = ScenarioBGridA /\ trace[L].y = ScenarioGrid)

(***************************************************************************)
(* The instance after run_sweep has returned: the caller goes on calling   *)
(* its methods.  Nothing but __init__ assigns level = 0.                   *)
(***************************************************************************)
\* A second run_sweep(): the while loop is entered with the fields as the
\* first sweep left them.
run_sweep_again ==
    /\ pc = "done"
    /\ pc' = "loop"
    /\ UNCHANGED <<n_levels, npdir, ppdir, data, results, x, y,
                   parameters_in_sweep, level, opt_point, param_labels,
                   param_bounds, i, j, error, returned, calls, trace, fit,
                   box, updater, xml>>

\* set_param_bounds() on an instance whose sweep has returned.
set_param_bounds_after ==
    /\ pc = "done"
    /\ \E param1 \in Bounds1Choices \cup {NoneArg},
          param2 \in Bounds2Choices \cup {NoneArg} :
          param_bounds' = <<BoundsOrDefault(param1), BoundsOrDefault(param2)>>
    /\ UNCHANGED <<n_levels, npdir, ppdir, data, results, x, y,
                   parameters_in_sweep, level, opt_point, param_labels,
                   pc, i, j, error, returned, calls, trace, fit,
                   box, updater, xml>>

NextLifecycle ==
    \/ Next
    \/ run_sweep_again
    \/ set_param_bounds_after

SpecLifecycle == Init /\ [][NextLifecycle]_vars

(***************************************************************************)
(* C12                                                                     *)
(***************************************************************************)
\* C12: every step that begins a run_sweep call, a second call on the same
\* instance included, leaves the level index at 0 and the error tensor all
\* zero: nothing of an earlier sweep persists into the new one.
C12_EveryCallStartsFresh ==
    [][(pc \in {"idle", "done"} /\ pc' = "loop") =>
          /\ level' = 0
          /\ results' = [l \in 0..(n_levels - 1) |-> ZeroMatrix(npdir)]]_vars

(***************************************************************************)
(* C18                                                                     *)
(***************************************************************************)
C18_Frame ==
    param_bounds' # param_bounds =>
        /\ \A p \in 1..2 : Len(param_bounds'[p]) = 2
        /\ \E param1 \in Bounds1Choices \cup {NoneArg},
              param2 \in Bounds2Choices \cup {NoneArg} :
              param_bounds' = << IF param1 = NoneArg THEN NoBounds ELSE param1,
                                 IF param2 = NoneArg THEN NoBounds ELSE param2 >>
        /\ UNCHANGED <<n_levels, npdir, ppdir, data, results, x, y,
                       parameters_in_sweep, level, opt_point, param_labels,
                       pc, i, j, error, returned, calls, trace, fit>>

\* C18: a step that changes param_bounds stores a pair for each parameter
\* (the pair given, [None, None] for an argument left out or None) and
\* changes no other field: level, opt_point, the grids x and y and every
\* cell of results stay as they were.
C18_SetParamBoundsFrame == [][C18_Frame]_vars

\* The bounds were replaced on an instance whose sweep has evaluated levels.
C18_Witness ==
    /\ pc = "done"
    /\ level = n_levels
    /\ Len(trace) = n_levels
    /\ param_bounds # <<NoBounds, NoBounds>>
    /\ \A L \in 1..Len(trace) :
          trace[L].limits[1] =
              << RSub(trace[L].center[1],
                      RMul(trace[L].factor, trace[L].center[1])),
                 RAdd(trace[L].center[1],
                      RMul(trace[L].factor, trace[L].center[1])) >>
    /\ trace[1].center[1] = Rat(2)
    /\ param_bounds[1] = <<Some(1), Some(3)>>

(***************************************************************************)
(* C13                                                                     *)
(***************************************************************************)
\* The black box or the error function has raised at cell (i, j) of level.
Raised == pc = "raised" /\ error = "Exception"

\* C13: when the black box or the error function raises at cell (i, j) of
\* level L, run_sweep is left without a returned point and nothing is rolled
\* back: the cells of the levels below L and the cells before (i, j) of level
\* L hold the errors computed for them, cell (i, j) and every later cell hold
\* their initial zero, level is L and opt_point is the centre level L
\* started from.
C13_NothingRolledBack ==
    Raised =>
        /\ returned = <<Zero, Zero>>
        /\ Len(trace) = level + 1
        /\ opt_point = trace[level + 1].center
        /\ Len(calls) = level * npdir * npdir + i * npdir + j + 1
        /\ calls[Len(calls)].level = level
        /\ calls[Len(calls)].i = i
        /\ calls[Len(calls)].j = j
        /\ \A k \in 1..(Len(calls) - 1) :
              /\ \/ calls[k].level < level
                 \/ /\ calls[k].level = level
                    /\ Before(<<calls[k].i, calls[k].j>>, <<i, j>>)
              /\ results[calls[k].level][calls[k].i][calls[k].j] =
                     compute_error(ModelRun(calls[k].params), data)
        /\ \A l \in 0..(n_levels - 1), c \in Cells :
              (l > level \/ (l = level /\ ~Before(c, <<i, j>>))) =>
                  results[l][c[1]][c[2]] = Zero

\* The failure happens in the second row of the second level, after cells
\* with a non-zero error were written in both levels.
C13_Witness ==
    /\ Raised
    /\ level = 1
    /\ i = 1
    /\ results[0][0][0] # Zero
    /\ results[1][0][0] # Zero

(***************************************************************************)
(* C15                                                                     *)
(***************************************************************************)
\* C15: a parameter whose centre is 0 and that has no bounds gets both limits
\* 0 and a grid of npdir zeros at that level, and the level is evaluated all
\* the same: once it is complete it has one invocation for each of the
\* npdir * npdir cells.
C15_ZeroCentre ==
    \A L \in 1..Len(trace) : \A p \in 1..2 :
        (trace[L].center[p] = Zero /\ param_bounds[p] = NoBounds) =>
            /\ trace[L].limits[p] = <<Zero, Zero>>
            /\ GridOf(trace[L], p) = ZeroVector(npdir)
            /\ (L - 1 < level \/ pc \in {"select", "advance"}) =>
                  /\ Cardinality(CallsAt(L - 1)) = npdir * npdir
                  /\ {<<calls[k].i, calls[k].j>> : k \in CallsAt(L - 1)} = Cells

\* A level with both centres 0, no bounds and three points per direction has
\* been evaluated over its nine cells.
C15_Witness ==
    /\ pc = "select"
    /\ npdir = 3
    /\ param_bounds = <<NoBounds, NoBounds>>
    /\ trace[1].center = <<Zero, Zero>>
    /\ trace[1].x = ZeroVector(3)
    /\ trace[1].y = ZeroVector(3)
    /\ Cardinality(CallsAt(0)) = 9

(***************************************************************************)
(* C17                                                                     *)
(***************************************************************************)
RAbs(r) == IF RLt(r, Zero) THEN RNeg(r) ELSE r

\* high - low of parameter p in the window recorded for a level.
Width(rec, p) == RSub(rec.limits[p][2], rec.limits[p][1])

NpdirAnyChoices == 1..MaxNpdir

InvertedBounds == <<Some(3), Some(1)>>

InitInvalid ==
    /\ n_levels \in LevelChoices
    /\ npdir \in NpdirAnyChoices
    /\ ppdir \in PpdirChoices
    /\ data \in DataChoices
    /\ results = [l \in 0..(n_levels - 1) |-> ZeroMatrix(npdir)]
    /\ x = ZeroVector(npdir)
    /\ y = ZeroVector(npdir)
    /\ parameters_in_sweep = EmptyDict
    /\ level = 0
    /\ opt_point = <<Zero, Zero>>
    /\ param_labels = <<"x", "y">>
    /\ param_bounds = <<NoBounds, NoBounds>>
    /\ pc = "idle"
    /\ i = 0
    /\ j = 0
    /\ error = "none"
    /\ returned = <<Zero, Zero>>
    /\ calls = <<>>
    /\ trace = <<>>
    /\ fit = <<Zero, Zero>>
    /\ box = NoBox
    /\ updater = NoUpdater
    /\ xml = NoXml

\* set_param_bounds([3, 1]): self.param_bounds = [param1, param2], untested.
set_param_bounds_inverted ==
    /\ pc = "idle"
    /\ \E param2 \in Bounds2Choices \cup {NoneArg} :
          param_bounds' = <<BoundsOrDefault(InvertedBounds),
                            BoundsOrDefault(param2)>>
    /\ UNCHANGED <<n_levels, npdir, ppdir, data, results, x, y,
                   parameters_in_sweep, level, opt_point, param_labels,
                   pc, i, j, error, returned, calls, trace, fit,
                   box, updater, xml>>

NextInvalid ==
    \/ Next
    \/ set_param_bounds_inverted

SpecInvalid == InitInvalid /\ [][NextInvalid]_vars

(***************************************************************************)
(* C14                                                                     *)
(***************************************************************************)
InvalidSettings ==
    \/ npdir < 2
    \/ \E p \in 1..2 :
          /\ param_bounds[p][1].some
          /\ param_bounds[p][2].some
          /\ param_bounds[p][1].v > param_bounds[p][2].v

\* C14: with invalid settings (a lower bound above the upper bound, fewer
\* than two points per direction) the sweep is rejected with an error before
\* the black box is invoked: no invocation is ever recorded and no point is
\* returned.
C14_InvalidRejected ==
    InvalidSettings => (Len(calls) = 0 /\ pc # "done")

(***************************************************************************)
(* PhysiCellBlackBox.run.  The simulator is an external program: an        *)
(* execution writes the cell files output0..output(m-1) for some m >= 1    *)
(* into the directory "output" and touches no other file there.  The       *)
(* directory is recorded as the execution that last wrote each file (0: no  *)
(* such file).                                                             *)
(***************************************************************************)
sweepVars == <<n_levels, npdir, ppdir, data, results, x, y,
               parameters_in_sweep, level, opt_point, param_labels,
               param_bounds, pc, i, j, error, returned, calls, trace, fit>>

Files == 1..MaxFiles

EmptyOutput == [f \in Files |-> 0]

\* Path("temp") and Path(f"temp/replicate{i}").
TempFolder == <<"temp">>
ReplicateFolder(k) == <<"temp", "replicate", k>>

\* PhysiCellBlackBox(updater, processor, project_name, keep_files) in a
\* project directory whose output folder is empty.
InitBlackBox ==
    /\ n_levels = 1
    /\ npdir = 2
    /\ ppdir = 1
    /\ data = <<4, 6>>
    /\ results = [l \in 0..0 |-> ZeroMatrix(2)]
    /\ x = ZeroVector(2)
    /\ y = ZeroVector(2)
    /\ parameters_in_sweep = EmptyDict
    /\ level = 0
    /\ opt_point = <<Zero, Zero>>
    /\ param_labels = <<"x", "y">>
    /\ param_bounds = <<NoBounds, NoBounds>>
    /\ pc = "idle"
    /\ i = 0
    /\ j = 0
    /\ error = "none"
    /\ returned = <<Zero, Zero>>
    /\ calls = <<>>
    /\ trace = <<>>
    /\ fit = <<Zero, Zero>>
    /\ updater = NoUpdater
    /\ xml = NoXml
    /\ \E has_updater \in BOOLEAN, has_processor \in BOOLEAN,
          keep \in BOOLEAN :
          box = [pc |-> "idle",
                 updater |-> has_updater,
                 processor |-> has_processor,
                 keep_files |-> keep,
                 number_of_replicates |-> 0,
                 i |-> 0,
                 storage_folder |-> <<>>,
                 folders |-> {},
                 config_writes |-> 0,
                 executions |-> 0,
                 first |-> 0,
                 output |-> EmptyOutput,
                 copies |-> <<>>,
                 read |-> [execution |-> 0, files |-> EmptyOutput],
                 runs |-> 0]

\* run(params, number_of_replicates) up to the for loop.
box_run ==
    /\ box.pc = "idle"
    /\ box.runs < MaxRuns
    /\ \E n \in 1..MaxReplicates :
          box' = [box EXCEPT
                    !.pc = "replicate",
                    !.number_of_replicates = n,
                    !.i = 0,
                    !.first = box.executions + 1,
                    !.storage_folder =
                        IF box.keep_files THEN TempFolder ELSE <<>>,
                    !.folders =
                        IF box.keep_files THEN @ \cup {TempFolder} ELSE @,
                    !.config_writes = IF box.updater THEN @ + 1 ELSE @]
    /\ UNCHANGED sweepVars
    /\ UNCHANGED <<updater, xml>>

\* subprocess.run(self.project_command): execution e writes its m files.
Simulate(output, e, m) == [f \in Files |-> IF f <= m THEN e ELSE output[f]]

\* One pass of the for loop: the replicate folder, the execution, then either
\* `return self.processor(Path("output"))` or the copy to the storage folder.
box_replicate ==
    /\ box.pc = "replicate"
    /\ box.i < box.number_of_replicates
    /\ \E m \in Files :
          LET replicated == (box.number_of_replicates > 1) /\ box.keep_files
              folder == IF replicated THEN ReplicateFolder(box.i)
                        ELSE box.storage_folder
              e == box.executions + 1
              out == Simulate(box.output, e, m)
              ran == [box EXCEPT
                        !.storage_folder = folder,
                        !.folders = IF replicated THEN @ \cup {folder} ELSE @,
                        !.executions = e,
                        !.output = out]
          IN  box' = IF box.processor
                     THEN [ran EXCEPT
                             !.read = [execution |-> e, files |-> out],
                             !.pc = "idle",
                             !.runs = @ + 1]
                     ELSE [ran EXCEPT
                             !.copies =
                                 IF box.keep_files
                                 THEN Append(@, [folder |-> folder,
                                                 execution |-> e,
                                                 files |-> out])
                                 ELSE @,
                             !.i = @ + 1]
    /\ UNCHANGED sweepVars
    /\ UNCHANGED <<updater, xml>>

\* The for loop is exhausted: run returns None.
box_return ==
    /\ box.pc = "replicate"
    /\ box.i = box.number_of_replicates
    /\ box' = [box EXCEPT !.pc = "idle", !.runs = @ + 1]
    /\ UNCHANGED sweepVars
    /\ UNCHANGED <<updater, xml>>

NextBlackBox ==
    \/ box_run
    \/ box_replicate
    \/ box_return

SpecBlackBox == InitBlackBox /\ [][NextBlackBox]_vars

(***************************************************************************)
(* C19                                                                     *)
(***************************************************************************)
\* C19: the output the processor reads after an execution holds only files
\* which that execution wrote: no file left by an earlier invocation is read.
C19_NoStaleOutput ==
    \A f \in Files : box.read.files[f] \in {0, box.read.execution}

(***************************************************************************)
(* physicool.updaters on a datatypes.CellParameters object.  Floats are    *)
(* small integers; the pydantic sections validate on assignment.           *)
(***************************************************************************)
\* A CellParameters object as the tests build it.
CellData ==
    [name |-> "default",
     cycle |-> [code |-> 6,
                phase_durations |-> <<3, 2>>,
                phase_transition_rates |-> <<>>],
     death |-> << [code |-> 100, name |-> "apoptosis", death_rate |-> 1] >>,
     volume |-> [total |-> 2,
                 fluid_fraction |-> 1,
                 nuclear |-> 2,
                 fluid_change_rate |-> 1,
                 cytoplasmic_biomass_change_rate |-> 1,
                 nuclear_biomass_change_rate |-> 1,
                 calcified_fraction |-> 0,
                 calcification_rate |-> 0,
                 relative_rupture_volume |-> 2],
     mechanics |-> [cell_cell_adhesion_strength |-> 1,
                    cell_cell_repulsion_strength |-> 2,
                    relative_maximum_adhesion_distance |-> 1,
                    set_relative_equilibrium_distance |-> 2,
                    set_absolute_equilibrium_distance |-> 2],
     motility |-> [speed |-> 1,
                   persistence_time |-> 2,
                   migration_bias |-> 1,
                   motility_enabled |-> TRUE,
                   use_2d |-> TRUE,
                   chemotaxis_enabled |-> FALSE,
                   chemotaxis_substrate |-> "substrate",
                   chemotaxis_direction |-> 1],
     secretion |-> << [name |-> "substrate", secretion_rate |-> 0] >>,
     custom |-> << [name |-> "sample", value |-> 1] >>]

\* confloat(ge=0.0) and confloat(ge=0.0, le=1.0).
NonNegative == Nat
UnitInterval == 0..1

\* if key in new_values.keys(): cell_data.<section>.<field> = new_values[key],
\* where the assignment raises ValidationError for a value outside the
\* field's Range and nothing runs after a raise.
Assign(st, key, section, field, Range, new_values) ==
    IF st.raised \/ key \notin DOMAIN new_values
    THEN st
    ELSE IF new_values[key] \in Range
         THEN [st EXCEPT !.cell_data[section][field] = new_values[key]]
         ELSE [st EXCEPT !.raised = TRUE]

\* The motility updater with the persistence_time key written to speed.
update_motility_values_swapped(cell_data, new_values) ==
    LET st0 == [cell_data |-> cell_data, raised |-> FALSE]
        st1 == Assign(st0, "speed", "motility", "speed",
                      NonNegative, new_values)
        st2 == Assign(st1, "persistence_time", "motility", "speed",
                      NonNegative, new_values)
    IN  Assign(st2, "migration_bias", "motility", "migration_bias",
               UnitInterval, new_values)

update_motility_values(cell_data, new_values) ==
    LET st0 == [cell_data |-> cell_data, raised |-> FALSE]
        st1 == Assign(st0, "speed", "motility", "speed",
                      NonNegative, new_values)
        st2 == Assign(st1, "persistence_time", "motility", "persistence_time",
                      NonNegative, new_values)
    IN  Assign(st2, "migration_bias", "motility", "migration_bias",
               UnitInterval, new_values)

\* The dicts given as new_values: any of the motility keys, and a key of
\* another section, with values inside and outside the fields' ranges.
KeyChoices == {"speed", "persistence_time", "migration_bias", "total"}
ValueChoices == {-1, 0, 2}
NewValuesChoices ==
    UNION {[keys -> ValueChoices] : keys \in SUBSET KeyChoices}

InitUpdaters ==
    /\ n_levels = 1
    /\ npdir = 2
    /\ ppdir = 1
    /\ data = <<4, 6>>
    /\ results = [l \in 0..0 |-> ZeroMatrix(2)]
    /\ x = ZeroVector(2)
    /\ y = ZeroVector(2)
    /\ parameters_in_sweep = EmptyDict
    /\ level = 0
    /\ opt_point = <<Zero, Zero>>
    /\ param_labels = <<"x", "y">>
    /\ param_bounds = <<NoBounds, NoBounds>>
    /\ pc = "idle"
    /\ i = 0
    /\ j = 0
    /\ error = "none"
    /\ returned = <<Zero, Zero>>
    /\ calls = <<>>
    /\ trace = <<>>
    /\ fit = <<Zero, Zero>>
    /\ box = NoBox
    /\ xml = NoXml
    /\ updater = [pc |-> "idle",
                  cell_data |-> CellData,
                  before |-> CellData,
                  function |-> "none",
                  new_values |-> EmptyDict]

\* A call update_motility_values(cell_data, new_values) from start to return
\* or raise.
call_update_motility_values ==
    /\ \E new_values \in NewValuesChoices :
          LET st == update_motility_values(updater.cell_data, new_values)
          IN  updater' = [pc |-> IF st.raised THEN "raised" ELSE "returned",
                          cell_data |-> st.cell_data,
                          before |-> updater.cell_data,
                          function |-> "update_motility_values",
                          new_values |-> new_values]
    /\ UNCHANGED sweepVars
    /\ UNCHANGED <<box, xml>>

NextUpdaters ==
    \/ call_update_motility_values

SpecUpdaters == InitUpdaters /\ [][NextUpdaters]_vars

(***************************************************************************)
(* C20                                                                     *)
(***************************************************************************)
MotilityKeys == {"speed", "persistence_time", "migration_bias"}

MotilityCalled == updater.function = "update_motility_values"

\* C20: a call of update_motility_values that returns has set each motility
\* field whose key is in new_values to the value given and left each of
\* speed, persistence_time and migration_bias whose key is absent at its
\* previous value; every call, one that raises included, leaves the other
\* fields of the motility section and every other section as they were.
C20_MotilityUpdate ==
    MotilityCalled =>
        /\ updater.pc = "returned" =>
              \A k \in MotilityKeys :
                  updater.cell_data.motility[k] =
                      IF k \in DOMAIN updater.new_values
                      THEN updater.new_values[k]
                      ELSE updater.before.motility[k]
        /\ \A f \in (DOMAIN updater.cell_data.motility) \ MotilityKeys :
              updater.cell_data.motility[f] = updater.before.motility[f]
        /\ \A sec \in (DOMAIN updater.cell_data) \ {"motility"} :
              updater.cell_data[sec] = updater.before[sec]
        /\ DOMAIN updater.cell_data = DOMAIN updater.before
        /\ DOMAIN updater.cell_data.motility = DOMAIN updater.before.motility

\* A call that gave speed and persistence_time new values, no migration_bias
\* and a key of another section has returned.
C20_Witness ==
    /\ MotilityCalled
    /\ updater.pc = "returned"
    /\ DOMAIN updater.new_values = {"speed", "persistence_time", "total"}
    /\ updater.cell_data.motility.speed = 2
    /\ updater.before.motility.speed = 1
    /\ updater.cell_data.motility.persistence_time = 0
    /\ updater.before.motility.persistence_time = 2
    /\ updater.cell_data.motility.migration_bias = 1

(***************************************************************************)
(* update_volume_values, called once on a CellParameters object.           *)
(***************************************************************************)
VolumeKeys ==
    {"total", "fluid_fraction", "nuclear", "fluid_change_rate",
     "cytoplasmic_biomass_change_rate", "nuclear_biomass_change_rate",
     "calcified_fraction", "calcification_rate", "relative_rupture_volume"}

\* A new value for each volume field, inside its range and not its old value.
VolumeValue ==
    [total |-> 5,
     fluid_fraction |-> 0,
     nuclear |-> 3,
     fluid_change_rate |-> 4,
     cytoplasmic_biomass_change_rate |-> 6,
     nuclear_biomass_change_rate |-> 7,
     calcified_fraction |-> 1,
     calcification_rate |-> 8,
     relative_rupture_volume |-> 9]

\* The dicts given as new_values: every subset of the nine keys.
VolumeValuesChoices ==
    {[k \in keys |-> VolumeValue[k]] : keys \in SUBSET VolumeKeys}

\* The nine if statements, in order; the fourth assigns to volume.nuclear.
update_volume_values(cell_data, new_values) ==
    LET st0 == [cell_data |-> cell_data, raised |-> FALSE]
        st1 == Assign(st0, "total", "volume", "total",
                      NonNegative, new_values)
        st2 == Assign(st1, "fluid_fraction", "volume", "fluid_fraction",
                      UnitInterval, new_values)
        st3 == Assign(st2, "nuclear", "volume", "nuclear",
                      NonNegative, new_values)
        st4 == Assign(st3, "fluid_change_rate", "volume", "nuclear",
                      NonNegative, new_values)
        st5 == Assign(st4, "cytoplasmic_biomass_change_rate", "volume",
                      "cytoplasmic_biomass_change_rate",
                      NonNegative, new_values)
        st6 == Assign(st5, "nuclear_biomass_change_rate", "volume",
                      "nuclear_biomass_change_rate", NonNegative, new_values)
        st7 == Assign(st6, "calcified_fraction", "volume",
                      "calcified_fraction", UnitInterval, new_values)
        st8 == Assign(st7, "calcification_rate", "volume",
                      "calcification_rate", NonNegative, new_values)
    IN  Assign(st8, "relative_rupture_volume", "volume",
               "relative_rupture_volume", NonNegative, new_values)

call_update_volume_values ==
    /\ updater.pc = "idle"
    /\ \E new_values \in VolumeValuesChoices :
          LET st == update_volume_values(updater.cell_data, new_values)
          IN  updater' = [pc |-> IF st.raised THEN "raised" ELSE "returned",
                          cell_data |-> st.cell_data,
                          before |-> updater.cell_data,
                          function |-> "update_volume_values",
                          new_values |-> new_values]
    /\ UNCHANGED sweepVars
    /\ UNCHANGED <<box, xml>>

NextVolume ==
    \/ call_update_volume_values

SpecVolume == InitUpdaters /\ [][NextVolume]_vars

(***************************************************************************)
(* C21                                                                     *)
(***************************************************************************)
VolumeCalled == updater.function = "update_volume_values"

\* C21: after update_volume_values each volume field whose key is in
\* new_values holds the value given for it and each other volume field holds
\* its old value.
C21_VolumeUpdate ==
    VolumeCalled =>
        \A k \in VolumeKeys :
            updater.cell_data.volume[k] =
                IF k \in DOMAIN updater.new_values
                THEN updater.new_values[k]
                ELSE updater.before.volume[k]

(***************************************************************************)
(* update_cycle_values on a cell whose cycle holds phase durations or      *)
(* phase transition rates, as parse_cycle builds it (the other list is     *)
(* None; None and [] are both false in `if cell_data.cycle.<list>:`).      *)
(***************************************************************************)
PhaseKeys == <<"phase_0", "phase_1", "phase_2", "phase_3">>

CycleKeyChoices == {"phase_0", "phase_1", "phase_2", "speed"}
CycleValueChoices == {-1, 4}
CycleValuesChoices ==
    UNION {[keys -> CycleValueChoices] : keys \in SUBSET CycleKeyChoices}

\* The cells: durations only, and rates only.
CycleCellChoices ==
    {CellData,
     [CellData EXCEPT !.cycle.phase_durations = <<>>,
                      !.cycle.phase_transition_rates = <<3, 2>>]}

\* One block without the length test: the list comprehension alone.
CycleListUnchecked(st, field, new_values) ==
    LET old == st.cell_data.cycle[field]
        n   == Cardinality(DOMAIN new_values)
    IN  IF st.error # "none" \/ old = <<>>
        THEN st
        ELSE IF \E k \in 1..n : PhaseKeys[k] \notin DOMAIN new_values
        THEN [st EXCEPT !.error = "KeyError"]
        ELSE IF \E k \in 1..n : new_values[PhaseKeys[k]] \notin NonNegative
        THEN [st EXCEPT !.error = "ValidationError"]
        ELSE [st EXCEPT !.cell_data.cycle[field] =
                            [k \in 1..n |-> new_values[PhaseKeys[k]]]]

\* One `if cell_data.cycle.<list>:` block: the length test that raises
\* ValueError, the list comprehension over new_values[f"phase_{i}"] (KeyError
\* for a missing key) and the validated assignment of the new list.
CycleList(st, field, new_values) ==
    LET old == st.cell_data.cycle[field]
        n   == Cardinality(DOMAIN new_values)
    IN  IF st.error # "none" \/ old = <<>>
        THEN st
        ELSE IF Len(old) # n
        THEN [st EXCEPT !.error = "ValueError"]
        ELSE IF \E k \in 1..n : PhaseKeys[k] \notin DOMAIN new_values
        THEN [st EXCEPT !.error = "KeyError"]
        ELSE IF \E k \in 1..n : new_values[PhaseKeys[k]] \notin NonNegative
        THEN [st EXCEPT !.error = "ValidationError"]
        ELSE [st EXCEPT !.cell_data.cycle[field] =
                            [k \in 1..n |-> new_values[PhaseKeys[k]]]]

update_cycle_values(cell_data, new_values) ==
    CycleList(CycleList([cell_data |-> cell_data, error |-> "none"],
                        "phase_durations", new_values),
              "phase_transition_rates", new_values)

InitCycle ==
    /\ n_levels = 1
    /\ npdir = 2
    /\ ppdir = 1
    /\ data = <<4, 6>>
    /\ results = [l \in 0..0 |-> ZeroMatrix(2)]
    /\ x = ZeroVector(2)
    /\ y = ZeroVector(2)
    /\ parameters_in_sweep = EmptyDict
    /\ level = 0
    /\ opt_point = <<Zero, Zero>>
    /\ param_labels = <<"x", "y">>
    /\ param_bounds = <<NoBounds, NoBounds>>
    /\ pc = "idle"
    /\ i = 0
    /\ j = 0
    /\ error = "none"
    /\ returned = <<Zero, Zero>>
    /\ calls = <<>>
    /\ trace = <<>>
    /\ fit = <<Zero, Zero>>
    /\ box = NoBox
    /\ xml = NoXml
    /\ \E cell \in CycleCellChoices :
          updater = [pc |-> "idle",
                     cell_data |-> cell,
                     before |-> cell,
                     function |-> "none",
                     new_values |-> EmptyDict,
                     error |-> "none"]

\* A call update_cycle_values(cell_data, new_values) from start to return or
\* raise.
call_update_cycle_values ==
    /\ \E new_values \in CycleValuesChoices :
          LET st == update_cycle_values(updater.cell_data, new_values)
          IN  updater' = [pc |-> IF st.error = "none" THEN "returned"
                                 ELSE "raised",
                          cell_data |-> st.cell_data,
                          before |-> updater.cell_data,
                          function |-> "update_cycle_values",
                          new_values |-> new_values,
                          error |-> st.error]
    /\ UNCHANGED sweepVars
    /\ UNCHANGED <<box, xml>>

NextCycle ==
    \/ call_update_cycle_values

SpecCycle == InitCycle /\ [][NextCycle]_vars

(***************************************************************************)
(* C22                                                                     *)
(***************************************************************************)
CycleCalled == updater.function = "update_cycle_values"

\* The list the cell's cycle holds.
CycleField(cell) ==
    IF cell.cycle.phase_durations # <<>>
    THEN "phase_durations" ELSE "phase_transition_rates"

C25_WrittenOnceInOrder ==
    /\ \A k \in 1..Len(calls) :
          /\ calls[k].level = (k - 1) \div (npdir * npdir)
          /\ calls[k].i = ((k - 1) % (npdir * npdir)) \div npdir
          /\ calls[k].j = (k - 1) % npdir
    /\ pc = "done" =>
          /\ Len(calls) = n_levels * npdir * npdir
          /\ \A k \in 1..Len(calls) :
                results[calls[k].level][calls[k].i][calls[k].j] =
                    compute_error(ModelRun(calls[k].params), data)

\* A sweep of two levels has returned with non-zero errors in both.
C25_Witness ==
    /\ pc = "done"
    /\ n_levels = 2
    /\ Len(calls) = 2 * npdir * npdir
    /\ \A l \in 0..1 : \E c \in Cells : results[l][c[1]][c[2]] # Zero

(***************************************************************************)
(* C26                                                                     *)
(***************************************************************************)
C26_Step ==
    results' # results =>
        /\ pc = "cell"
        /\ \A K \in 0..(n_levels - 1) : K # level => results'[K] = results[K]

C26_Later ==
    \A K \in 0..(n_levels - 1) : K > level => results[K] = ZeroMatrix(npdir)

\* C26: results changes only in the evaluation loop of a level and only in
\* results[level]: a level below keeps what it held when its loop completed,
\* and a level above is all zero.
C26_OnlyCurrentLevel == []C26_Later /\ [][C26_Step]_vars

\* The second level is being written while the first holds non-zero errors
\* and the second row of the second level has been reached.
C26_Witness ==
    /\ pc = "cell"
    /\ level = 1
    /\ i = 1
    /\ results[0][0][0] # Zero
    /\ results[1][0][0] # Zero

LevelComplete(l) ==
    l < level \/ (l = level /\ pc \in {"select", "advance"})

C29_NonNegative ==
    (/\ ppdir <= 1
     /\ param_bounds = <<NoBounds, NoBounds>>
     /\ RLe(Zero, fit[1])
     /\ RLe(Zero, fit[2])) =>
        /\ \A L \in 1..Len(trace) : \A p \in 1..2 :
              /\ \A k \in 0..(npdir - 1) : RLe(Zero, GridOf(trace[L], p)[k])
              /\ RLe(trace[L].limits[p][1], trace[L].center[p])
              /\ RLe(trace[L].center[p], trace[L].limits[p][2])
        /\ \A k \in 1..Len(calls) :
              RLe(Zero, calls[k].params[1]) /\ RLe(Zero, calls[k].params[2])
        /\ RLe(Zero, opt_point[1]) /\ RLe(Zero, opt_point[2])
        /\ RLe(Zero, returned[1]) /\ RLe(Zero, returned[2])

\* A sweep of two levels from the point (2, 2) has returned a point with
\* positive coordinates.
C29_Witness ==
    /\ pc = "done"
    /\ ppdir = 1
    /\ param_bounds = <<NoBounds, NoBounds>>
    /\ fit = <<Rat(2), Rat(2)>>
    /\ Len(trace) = 2
    /\ RLt(Zero, returned[1])
    /\ RLt(Zero, returned[2])

(***************************************************************************)
(* C30                                                                     *)
(***************************************************************************)
\* C30: when run(params, number_of_replicates = n) has returned, the
\* simulator was executed exactly n times in that call, the configuration
\* was written once per call when there is an updater, and with keep_files
\* the output was copied after each execution, to temp/replicate{i} for
\* replicate i when n > 1 and to temp when n = 1.
C30_EveryReplicateRuns ==
    (box.pc = "idle" /\ box.runs > 0) =>
        /\ box.executions - box.first + 1 = box.number_of_replicates
        /\ box.updater => box.config_writes = box.runs
        /\ box.keep_files =>
              \A e \in box.first..box.executions :
                  \E k \in 1..Len(box.copies) :
                      /\ box.copies[k].execution = e
                      /\ box.copies[k].folder =
                             IF box.number_of_replicates > 1
                             THEN ReplicateFolder(e - box.first)
                             ELSE TempFolder


(***************************************************************************)
(* pcxml: the helpers that parse and write the sections of the XML         *)
(* configuration file, applied to one ElementTree.                         *)
(***************************************************************************)
MaxWrites == 2

\* The text str() gives each of the numbers 0.0 .. 9.0 a dictionary may hold.
Texts == <<"0.0", "1.0", "2.0", "3.0", "4.0", "5.0", "6.0", "7.0", "8.0", "9.0">>

\* str(value)
str(value) == Texts[value + 1]

\* The same numbers as the configuration file spells them.
Digits == <<"0", "1", "2", "3", "4", "5", "6", "7", "8", "9">>

\* float(text): "6" and "6.0" are both 6.0.
float(text) ==
    CHOOSE value \in 0..9 : text = str(value) \/ text = Digits[value + 1]

\* A list-valued entry of a dictionary: None, or a list.
NoList == [some |-> FALSE, v |-> <<>>]
SomeList(list) == [some |-> TRUE, v |-> list]

\* The right-hand side of one `.text = ...` statement: str(value), the
\* "true"/"false" chosen by `if value:`, or the value itself.
TextOf(kind, value) ==
    IF kind = "str" THEN str(value)
    ELSE IF kind = "bool" THEN (IF value THEN "true" ELSE "false")
    ELSE value

\* The statements `tree.find(stem + leaf).text = ...new_values[key]...` of a
\* try block, in order: the first missing key raises KeyError, which ends
\* the block (the handler only prints).  Each entry of leaves is
\* <<leaf, key, kind>>.
RECURSIVE WriteLeaves(_, _, _)
WriteLeaves(st, leaves, new_values) ==
    IF st.stopped \/ leaves = <<>>
    THEN st
    ELSE LET leaf == Head(leaves)[1]
             key  == Head(leaves)[2]
             kind == Head(leaves)[3]
         IN  IF key \notin DOMAIN new_values
             THEN [st EXCEPT !.stopped = TRUE]
             ELSE WriteLeaves(
                      [st EXCEPT !.text[leaf] = TextOf(kind, new_values[key])],
                      Tail(leaves), new_values)

\* The leaves each write function sets, in the order of its statements.
DomainLeaves ==
    << <<"x_min", "x_min", "str">>, <<"x_max", "x_max", "str">>,
       <<"y_min", "y_min", "str">>, <<"y_max", "y_max", "str">>,
       <<"z_min", "z_min", "str">>, <<"z_max", "z_max", "str">>,
       <<"dx", "dx", "str">>, <<"dy", "dy", "str">>, <<"dz", "dz", "str">>,
       <<"use_2D", "use_2d", "bool">> >>

OverallLeaves ==
    << <<"max_time", "max_time", "str">>,
       <<"dt_diffusion", "dt_diffusion", "str">>,
       <<"dt_mechanics", "dt_mechanics", "str">>,
       <<"dt_phenotype", "dt_phenotype", "str">> >>

SubstanceLeaves ==
    << <<"physical_parameter_set/diffusion_coefficient",
         "diffusion_coefficient", "str">>,
       <<"physical_parameter_set/decay_rate", "decay_rate", "str">>,
       <<"initial_condition", "initial_condition", "str">>,
       <<"Dirichlet_boundary_condition", "dirichlet_boundary_condition",
         "str">> >>

DeathRateLeaves == << <<"death_rate", "death_rate", "str">> >>

DeathParameterLeaves ==
    << <<"parameters/unlysed_fluid_change_rate",
         "unlysed_fluid_change_rate", "str">>,
       <<"parameters/lysed_fluid_change_rate",
         "lysed_fluid_change_rate", "str">>,
       <<"parameters/cytoplasmic_biomass_change_rate",
         "cytoplasmic_biomass_change_rate", "str">>,
       <<"parameters/nuclear_biomass_change_rate",
         "nuclear_biomass_change_rate", "str">>,
       <<"parameters/calcification_rate", "calcification_rate", "str">>,
       <<"parameters/relative_rupture_volume",
         "relative_rupture_volume", "str">> >>

VolumeLeaves ==
    << <<"total", "total", "str">>,
       <<"fluid_fraction", "fluid_fraction", "str">>,
       <<"nuclear", "nuclear", "str">>,
       <<"fluid_change_rate", "fluid_change_rate", "str">>,
       <<"cytoplasmic_biomass_change_rate",
         "cytoplasmic_biomass_change_rate", "str">>,
       <<"nuclear_biomass_change_rate",
         "nuclear_biomass_change_rate", "str">>,
       <<"calcified_fraction", "calcified_fraction", "str">>,
       <<"calcification_rate", "calcification_rate", "str">>,
       <<"relative_rupture_volume", "relative_rupture_volume", "str">> >>

MechanicsLeaves ==
    << <<"cell_cell_adhesion_strength",
         "cell_cell_adhesion_strength", "str">>,
       <<"cell_cell_repulsion_strength",
         "cell_cell_repulsion_strength", "str">>,
       <<"relative_maximum_adhesion_distance",
         "relative_maximum_adhesion_distance", "str">>,
       <<"options/set_relative_equilibrium_distance",
         "set_relative_equilibrium_distance", "str">>,
       <<"options/set_absolute_equilibrium_distance",
         "set_absolute_equilibrium_distance", "str">> >>

\* The motility statements with speed and persistence_time written to each
\* other's leaf.
MotilityLeavesSwapped ==
    << <<"persistence_time", "speed", "str">>,
       <<"speed", "persistence_time", "str">>,
       <<"migration_bias", "migration_bias", "str">>,
       <<"options/enabled", "motility_enabled", "bool">>,
       <<"options/use_2D", "use_2d", "bool">>,
       <<"options/chemotaxis/enabled", "chemotaxis_enabled", "bool">>,
       <<"options/chemotaxis/substrate", "chemotaxis_substrate", "raw">>,
       <<"options/chemotaxis/direction", "chemotaxis_direction", "str">> >>

MotilityLeaves ==
    << <<"speed", "speed", "str">>,
       <<"persistence_time", "persistence_time", "str">>,
       <<"migration_bias", "migration_bias", "str">>,
       <<"options/enabled", "motility_enabled", "bool">>,
       <<"options/use_2D", "use_2d", "bool">>,
       <<"options/chemotaxis/enabled", "chemotaxis_enabled", "bool">>,
       <<"options/chemotaxis/substrate", "chemotaxis_substrate", "raw">>,
       <<"options/chemotaxis/direction", "chemotaxis_direction", "str">> >>

SecretionLeaves ==
    << <<"secretion_rate", "secretion_rate", "str">>,
       <<"secretion_target", "secretion_target", "str">>,
       <<"uptake_rate", "uptake_rate", "str">>,
       <<"net_export_rate", "net_export_rate", "str">> >>

\* The leaves of a table.
LeafNames(leaves) == {leaves[k][1] : k \in 1..Len(leaves)}

\* The text of a leaf in the configuration file before any write.
InitialText(leaves) ==
    [leaf \in LeafNames(leaves) |->
        LET entry == leaves[CHOOSE k \in 1..Len(leaves) : leaves[k][1] = leaf]
            kind == entry[3]
        IN  IF kind = "bool" THEN "false"
            ELSE IF kind = "raw" THEN "substrate"
            ELSE "0"]

\* The nodes of the configuration file the helpers are pointed at, by path:
\* substances "substrate" and "oxygen", a cycle given as durations or as
\* rates (cycle_type), a death node with an apoptosis model of one duration
\* and a necrosis model of two rates, and custom variables of which one has
\* no text.
ConfigTree(cycle_type) ==
    [domain |-> [tag |-> "domain", text |-> InitialText(DomainLeaves)],
     overall |-> [tag |-> "overall", text |-> InitialText(OverallLeaves)],
     microenvironment_setup |->
         [tag |-> "microenvironment_setup",
          variable |-> [name \in {"substrate", "oxygen"} |->
                           [text |-> InitialText(SubstanceLeaves)]]],
     cycle |-> [tag |-> "cycle", code |-> "6", data_type |-> cycle_type,
                phases |-> <<"0", "0">>],
     death |->
         [tag |-> "death",
          model |-> [name \in {"apoptosis", "necrosis"} |->
              IF name = "apoptosis"
              THEN [code |-> "8", data_type |-> "phase_durations",
                    phases |-> <<"0">>,
                    text |-> InitialText(DeathRateLeaves \o DeathParameterLeaves)]
              ELSE [code |-> "9", data_type |-> "phase_transition_rates",
                    phases |-> <<"0", "0">>,
                    text |-> InitialText(DeathRateLeaves \o DeathParameterLeaves)]]],
     volume |-> [tag |-> "volume", text |-> InitialText(VolumeLeaves)],
     mechanics |-> [tag |-> "mechanics", text |-> InitialText(MechanicsLeaves)],
     motility |-> [tag |-> "motility", text |-> InitialText(MotilityLeaves)],
     secretion |->
         [tag |-> "secretion",
          substrate |-> [name \in {"substrate", "oxygen"} |->
                            [text |-> InitialText(SecretionLeaves)]]],
     custom_data |->
         [tag |-> "custom_data",
          vars |-> << [tag |-> "sample", text |-> "0"],
                      [tag |-> "empty", text |-> ""],
                      [tag |-> "receptor", text |-> "0"] >>],
     user_parameters |->
         [tag |-> "user_parameters",
          vars |-> << [tag |-> "random_seed", text |-> "0"] >>]]

Paths == DOMAIN ConfigTree("phase_durations")

\* The outcome of a write: the tree as the call leaves it and the exception
\* that reaches the caller ("none" when the call returns).
Outcome(tree, raised) == [tree |-> tree, raised |-> raised]

\* A section whose leaves are all set by one try block.
WriteSection(new_values, tree, path, tag, leaves) ==
    IF tree[path].tag # tag
    THEN Outcome(tree, "ValueError")
    ELSE LET st == WriteLeaves([text |-> tree[path].text, stopped |-> FALSE],
                               leaves, new_values)
         IN  Outcome([tree EXCEPT ![path].text = st.text], "none")

write_domain(new_values, tree, path) ==
    WriteSection(new_values, tree, path, "domain", DomainLeaves)

write_overall(new_values, tree, path) ==
    WriteSection(new_values, tree, path, "overall", OverallLeaves)

write_substance(new_values, tree, path, name) ==
    IF tree[path].tag # "microenvironment_setup"
    THEN Outcome(tree, "ValueError")
    ELSE IF name \notin DOMAIN tree[path].variable
    THEN Outcome(tree, "ValueError")
    ELSE LET st == WriteLeaves([text |-> tree[path].variable[name].text,
                                stopped |-> FALSE],
                               SubstanceLeaves, new_values)
         IN  Outcome([tree EXCEPT ![path].variable[name].text = st.text],
                     "none")

\* bool(tree.find(stem + "/" + name)): an Element is true when it has children.
HasChildren(node, name) == node.data_type = name /\ node.phases # <<>>

\* The if/else over phase_durations and phase_transition_rates inside the
\* try block: list(None) and len(None) raise TypeError, a missing key raises
\* the KeyError the handler swallows, lists of different lengths raise
\* ValueError, and otherwise every element's text is set.
WritePhases(st, node, new_values) ==
    LET key == IF HasChildren(node, "phase_durations")
               THEN "phase_durations"
               ELSE "phase_transition_rates"
    IN  IF st.stopped
        THEN st
        ELSE IF node.data_type # key
        THEN [st EXCEPT !.raised = "TypeError"]
        ELSE IF key \notin DOMAIN new_values
        THEN [st EXCEPT !.stopped = TRUE]
        ELSE IF ~new_values[key].some
        THEN [st EXCEPT !.raised = "TypeError"]
        ELSE IF Len(node.phases) # Len(new_values[key].v)
        THEN [st EXCEPT !.raised = "ValueError"]
        ELSE [st EXCEPT !.phases = [k \in 1..Len(node.phases) |->
                                       str(new_values[key].v[k])]]

write_cycle(new_values, tree, path) ==
    IF tree[path].tag # "cycle"
    THEN Outcome(tree, "ValueError")
    ELSE LET st == WritePhases([phases |-> tree[path].phases,
                                stopped |-> FALSE, raised |-> "none"],
                               tree[path], new_values)
         IN  Outcome([tree EXCEPT ![path].phases = st.phases], st.raised)

write_death_model(new_values, tree, path) ==
    IF tree[path].tag # "death"
    THEN Outcome(tree, "ValueError")
    ELSE IF "name" \notin DOMAIN new_values
    THEN Outcome(tree, "KeyError")
    ELSE IF new_values["name"] \notin DOMAIN tree[path].model
    THEN Outcome(tree, "ValueError")
    ELSE LET name == new_values["name"]
             model == tree[path].model[name]
             st0 == [text |-> model.text, phases |-> model.phases,
                     stopped |-> FALSE, raised |-> "none"]
             st1 == WriteLeaves(st0, DeathRateLeaves, new_values)
             st2 == WritePhases(st1, model, new_values)
             st3 == IF st2.raised # "none"
                    THEN st2
                    ELSE WriteLeaves(st2, DeathParameterLeaves, new_values)
         IN  Outcome([tree EXCEPT ![path].model[name].text = st3.text,
                                  ![path].model[name].phases = st3.phases],
                     st3.raised)

write_volume(new_values, tree, path) ==
    WriteSection(new_values, tree, path, "volume", VolumeLeaves)

write_mechanics(new_values, tree, path) ==
    WriteSection(new_values, tree, path, "mechanics", MechanicsLeaves)

write_motility(new_values, tree, path) ==
    WriteSection(new_values, tree, path, "motility", MotilityLeaves)

write_secretion_substance(new_values, tree, path, name) ==
    IF tree[path].tag # "secretion"
    THEN Outcome(tree, "ValueError")
    ELSE IF name \notin DOMAIN tree[path].substrate
    THEN Outcome(tree, "ValueError")
    ELSE LET st == WriteLeaves([text |-> tree[path].substrate[name].text,
                                stopped |-> FALSE],
                               SecretionLeaves, new_values)
         IN  Outcome([tree EXCEPT ![path].substrate[name].text = st.text],
                     "none")

\* [var.tag for var in list(tree.find(path)) if var.text]
RECURSIVE VariablesNames(_)
VariablesNames(children) ==
    IF children = <<>> THEN <<>>
    ELSE IF Head(children).text = "" THEN VariablesNames(Tail(children))
    ELSE <<Head(children).tag>> \o VariablesNames(Tail(children))

\* for variable in new_values: tree.find(path + "/" + name).text = str(value),
\* where find gives the first child of that name.
RECURSIVE WriteVariables(_, _)
WriteVariables(children, new_values) ==
    IF new_values = <<>>
    THEN children
    ELSE LET variable == Head(new_values)
             found == CHOOSE k \in 1..Len(children) :
                          /\ children[k].tag = variable.name
                          /\ \A m \in 1..(k - 1) : children[m].tag # variable.name
         IN  WriteVariables([children EXCEPT ![found].text = str(variable.value)],
                            Tail(new_values))

write_custom_data(new_values, tree, path) ==
    IF (tree[path].tag # "custom_data") /\ (tree[path].tag # "user_parameters")
    THEN Outcome(tree, "ValueError")
    ELSE IF VariablesNames(tree[path].vars)
              # [k \in 1..Len(new_values) |-> new_values[k].name]
    THEN Outcome(tree, "ValueError")
    ELSE Outcome([tree EXCEPT
                     ![path].vars = WriteVariables(tree[path].vars, new_values)],
                 "none")

\* The outcome of a parse: the dictionary returned, or the exception raised.
Parsed(value) == [raised |-> "none", value |-> value]
ParseRaises(exception) == [raised |-> exception, value |-> <<>>]

\* [float(element.text) for element in node]
Floats(phases) == [k \in 1..Len(phases) |-> float(phases[k])]

parse_domain(tree, path) ==
    IF tree[path].tag # "domain"
    THEN ParseRaises("ValueError")
    ELSE LET text == tree[path].text
         IN  Parsed([x_min |-> float(text["x_min"]),
                     x_max |-> float(text["x_max"]),
                     y_min |-> float(text["y_min"]),
                     y_max |-> float(text["y_max"]),
                     z_min |-> float(text["z_min"]),
                     z_max |-> float(text["z_max"]),
                     dx |-> float(text["dx"]),
                     dy |-> float(text["dy"]),
                     dz |-> float(text["dz"]),
                     use_2d |-> (text["use_2D"] = "true")])

parse_overall(tree, path) ==
    IF tree[path].tag # "overall"
    THEN ParseRaises("ValueError")
    ELSE LET text == tree[path].text
         IN  Parsed([max_time |-> float(text["max_time"]),
                     dt_diffusion |-> float(text["dt_diffusion"]),
                     dt_mechanics |-> float(text["dt_mechanics"]),
                     dt_phenotype |-> float(text["dt_phenotype"])])

parse_substance(tree, path, name) ==
    IF tree[path].tag # "microenvironment_setup"
    THEN ParseRaises("ValueError")
    ELSE IF name \notin DOMAIN tree[path].variable
    THEN ParseRaises("ValueError")
    ELSE LET text == tree[path].variable[name].text
         IN  Parsed([name |-> name,
                     diffusion_coefficient |->
                         float(text["physical_parameter_set/diffusion_coefficient"]),
                     decay_rate |->
                         float(text["physical_parameter_set/decay_rate"]),
                     initial_condition |-> float(text["initial_condition"]),
                     dirichlet_boundary_condition |->
                         float(text["Dirichlet_boundary_condition"])])

parse_cycle(tree, path) ==
    IF tree[path].tag # "cycle"
    THEN ParseRaises("ValueError")
    ELSE LET cycle_node == tree[path]
         IN  Parsed([code |-> float(cycle_node.code),
                     phase_durations |->
                         IF cycle_node.data_type = "phase_durations"
                         THEN SomeList(Floats(cycle_node.phases))
                         ELSE NoList,
                     phase_transition_rates |->
                         IF cycle_node.data_type = "phase_transition_rates"
                         THEN SomeList(Floats(cycle_node.phases))
                         ELSE NoList])

parse_death_model(tree, path, name) ==
    IF tree[path].tag # "death"
    THEN ParseRaises("ValueError")
    ELSE IF name \notin DOMAIN tree[path].model
    THEN ParseRaises("ValueError")
    ELSE LET death_node == tree[path].model[name]
             text == death_node.text
         IN  Parsed([name |-> name,
                     code |-> float(death_node.code),
                     death_rate |-> float(text["death_rate"]),
                     phase_durations |->
                         IF death_node.data_type = "phase_durations"
                         THEN SomeList(Floats(death_node.phases))
                         ELSE NoList,
                     phase_transition_rates |->
                         IF death_node.data_type = "phase_transition_rates"
                         THEN SomeList(Floats(death_node.phases))
                         ELSE NoList,
                     unlysed_fluid_change_rate |->
                         float(text["parameters/unlysed_fluid_change_rate"]),
                     lysed_fluid_change_rate |->
                         float(text["parameters/lysed_fluid_change_rate"]),
                     cytoplasmic_biomass_change_rate |->
                         float(text["parameters/cytoplasmic_biomass_change_rate"]),
                     nuclear_biomass_change_rate |->
                         float(text["parameters/nuclear_biomass_change_rate"]),
                     calcification_rate |->
                         float(text["parameters/calcification_rate"]),
                     relative_rupture_volume |->
                         float(text["parameters/relative_rupture_volume"])])

parse_volume(tree, path) ==
    IF tree[path].tag # "volume"
    THEN ParseRaises("ValueError")
    ELSE LET text == tree[path].text
         IN  Parsed([total |-> float(text["total"]),
                     fluid_fraction |-> float(text["fluid_fraction"]),
                     nuclear |-> float(text["nuclear"]),
                     fluid_change_rate |-> float(text["fluid_change_rate"]),
                     cytoplasmic_biomass_change_rate |->
                         float(text["cytoplasmic_biomass_change_rate"]),
                     nuclear_biomass_change_rate |->
                         float(text["nuclear_biomass_change_rate"]),
                     calcified_fraction |-> float(text["calcified_fraction"]),
                     calcification_rate |-> float(text["calcification_rate"]),
                     relative_rupture_volume |->
                         float(text["relative_rupture_volume"])])

parse_mechanics(tree, path) ==
    IF tree[path].tag # "mechanics"
    THEN ParseRaises("ValueError")
    ELSE LET text == tree[path].text
         IN  Parsed([cell_cell_adhesion_strength |->
                         float(text["cell_cell_adhesion_strength"]),
                     cell_cell_repulsion_strength |->
                         float(text["cell_cell_repulsion_strength"]),
                     relative_maximum_adhesion_distance |->
                         float(text["relative_maximum_adhesion_distance"]),
                     set_relative_equilibrium_distance |->
                         float(text["options/set_relative_equilibrium_distance"]),
                     set_absolute_equilibrium_distance |->
                         float(text["options/set_absolute_equilibrium_distance"])])

parse_motility(tree, path) ==
    IF tree[path].tag # "motility"
    THEN ParseRaises("ValueError")
    ELSE LET text == tree[path].text
         IN  Parsed([speed |-> float(text["speed"]),
                     persistence_time |-> float(text["persistence_time"]),
                     migration_bias |-> float(text["migration_bias"]),
                     motility_enabled |-> (text["options/enabled"] = "true"),
                     use_2d |-> (text["options/use_2D"] = "true"),
                     chemotaxis_enabled |->
                         (text["options/chemotaxis/enabled"] = "true"),
                     chemotaxis_substrate |->
                         text["options/chemotaxis/substrate"],
                     chemotaxis_direction |->
                         float(text["options/chemotaxis/direction"])])

parse_secretion_substance(tree, path, name) ==
    IF tree[path].tag # "secretion"
    THEN ParseRaises("ValueError")
    ELSE IF name \notin DOMAIN tree[path].substrate
    THEN ParseRaises("ValueError")
    ELSE LET text == tree[path].substrate[name].text
         IN  Parsed([name |-> name,
                     secretion_rate |-> float(text["secretion_rate"]),
                     secretion_target |-> float(text["secretion_target"]),
                     uptake_rate |-> float(text["uptake_rate"]),
                     net_export_rate |-> float(text["net_export_rate"])])

\* [{"name": variable.tag, "value": float(variable.text)}
\*  for variable in list(tree.find(path)) if variable.text]
RECURSIVE CustomVariables(_)
CustomVariables(children) ==
    IF children = <<>> THEN <<>>
    ELSE IF Head(children).text = "" THEN CustomVariables(Tail(children))
    ELSE <<[name |-> Head(children).tag, value |-> float(Head(children).text)]>>
             \o CustomVariables(Tail(children))

parse_custom(tree, path) ==
    IF (tree[path].tag # "custom_data") /\ (tree[path].tag # "user_parameters")
    THEN ParseRaises("ValueError")
    ELSE Parsed(CustomVariables(tree[path].vars))

\* The dictionaries handed to the write functions: every key of the section
\* with a value of its own, so that a value read back from another leaf shows.
DomainDict ==
    [x_min |-> 1, x_max |-> 2, y_min |-> 3, y_max |-> 4, z_min |-> 5,
     z_max |-> 6, dx |-> 7, dy |-> 8, dz |-> 9, use_2d |-> TRUE]

OverallDict ==
    [max_time |-> 1, dt_diffusion |-> 2, dt_mechanics |-> 3,
     dt_phenotype |-> 4]

SubstanceDict(name) ==
    [name |-> name, diffusion_coefficient |-> 1, decay_rate |-> 2,
     initial_condition |-> 3, dirichlet_boundary_condition |-> 4]

\* A cycle dictionary as parse_cycle gives it: the code of the file, one
\* list and None for the other.
CycleDict(data_type, list) ==
    [code |-> 6,
     phase_durations |->
         IF data_type = "phase_durations" THEN SomeList(list) ELSE NoList,
     phase_transition_rates |->
         IF data_type = "phase_transition_rates" THEN SomeList(list) ELSE NoList]

\* A death dictionary as parse_death_model gives it for the model name.
DeathDict(name, list) ==
    [name |-> name,
     code |-> IF name = "apoptosis" THEN 8 ELSE 9,
     death_rate |-> 1,
     phase_durations |-> IF name = "necrosis" THEN NoList ELSE SomeList(list),
     phase_transition_rates |->
         IF name = "necrosis" THEN SomeList(list) ELSE NoList,
     unlysed_fluid_change_rate |-> 2,
     lysed_fluid_change_rate |-> 3,
     cytoplasmic_biomass_change_rate |-> 4,
     nuclear_biomass_change_rate |-> 5,
     calcification_rate |-> 6,
     relative_rupture_volume |-> 7]

VolumeDict ==
    [total |-> 1, fluid_fraction |-> 2, nuclear |-> 3, fluid_change_rate |-> 4,
     cytoplasmic_biomass_change_rate |-> 5, nuclear_biomass_change_rate |-> 6,
     calcified_fraction |-> 7, calcification_rate |-> 8,
     relative_rupture_volume |-> 9]

MechanicsDict ==
    [cell_cell_adhesion_strength |-> 1, cell_cell_repulsion_strength |-> 2,
     relative_maximum_adhesion_distance |-> 3,
     set_relative_equilibrium_distance |-> 4,
     set_absolute_equilibrium_distance |-> 5]

MotilityDict ==
    [speed |-> 1, persistence_time |-> 2, migration_bias |-> 3,
     motility_enabled |-> TRUE, use_2d |-> TRUE, chemotaxis_enabled |-> TRUE,
     chemotaxis_substrate |-> "oxygen", chemotaxis_direction |-> 4]

SecretionDict(name) ==
    [name |-> name, secretion_rate |-> 1, secretion_target |-> 2,
     uptake_rate |-> 3, net_export_rate |-> 4]

CustomList == << [name |-> "sample", value |-> 1],
                 [name |-> "receptor", value |-> 2] >>

UserList == << [name |-> "random_seed", value |-> 3] >>

\* The dictionary without one of its keys.
Without(dict, key) == [k \in (DOMAIN dict) \ {key} |-> dict[k]]

\* The cycle and death dictionaries drawn: lists of the file's length or
\* not, of the file's kind or not, a name the file has or not, and
\* dictionaries with a key left out.
CycleDictChoices ==
    {CycleDict(data_type, list) :
        data_type \in {"phase_durations", "phase_transition_rates"},
        list \in {<<1>>, <<1, 2>>}}
        \cup {Without(CycleDict("phase_durations", <<1, 2>>), "phase_durations")}
DeathDictChoices ==
    {DeathDict(name, list) :
        name \in {"apoptosis", "necrosis", "autophagy"},
        list \in {<<1>>, <<1, 2>>}}
        \cup {Without(DeathDict("apoptosis", <<1>>), "calcification_rate"),
              Without(DeathDict("apoptosis", <<1>>), "name")}
InitXml ==
    /\ n_levels = 1
    /\ npdir = 2
    /\ ppdir = 1
    /\ data = <<4, 6>>
    /\ results = [l \in 0..0 |-> ZeroMatrix(2)]
    /\ x = ZeroVector(2)
    /\ y = ZeroVector(2)
    /\ parameters_in_sweep = EmptyDict
    /\ level = 0
    /\ opt_point = <<Zero, Zero>>
    /\ param_labels = <<"x", "y">>
    /\ param_bounds = <<NoBounds, NoBounds>>
    /\ pc = "idle"
    /\ i = 0
    /\ j = 0
    /\ error = "none"
    /\ returned = <<Zero, Zero>>
    /\ calls = <<>>
    /\ trace = <<>>
    /\ fit = <<Zero, Zero>>
    /\ box = NoBox
    /\ updater = NoUpdater
    /\ \E cycle_type \in {"phase_durations", "phase_transition_rates"} :
          xml = [pc |-> "idle",
                 tree |-> ConfigTree(cycle_type),
                 before |-> ConfigTree(cycle_type),
                 call |-> [fn |-> "none", path |-> "domain", name |-> "",
                           new_values |-> <<>>],
                 raised |-> "none",
                 parsed |-> ParseRaises("not parsed"),
                 writes |-> 0]

\* The record of a call of a write function: what it leaves and what it
\* raises, next to the tree it was given.
Written(fn, new_values, path, name, result) ==
    [pc |-> "written",
     tree |-> result.tree,
     before |-> xml.tree,
     call |-> [fn |-> fn, path |-> path, name |-> name,
               new_values |-> new_values],
     raised |-> result.raised,
     parsed |-> ParseRaises("not parsed"),
     writes |-> xml.writes + 1]

call_write_domain ==
    /\ xml.pc = "idle"
    /\ xml.writes < MaxWrites
    /\ \E new_values \in {DomainDict, Without(DomainDict, "y_min")},
           path \in {"domain", "overall"} :
            xml' = Written("write_domain", new_values, path, "",
                  write_domain(new_values, xml.tree, path))
    /\ UNCHANGED <<sweepVars, box, updater>>

call_write_overall ==
    /\ xml.pc = "idle"
    /\ xml.writes < MaxWrites
    /\ \E new_values \in {OverallDict, Without(OverallDict, "dt_mechanics")},
           path \in {"overall", "domain"} :
            xml' = Written("write_overall", new_values, path, "",
                  write_overall(new_values, xml.tree, path))
    /\ UNCHANGED <<sweepVars, box, updater>>

call_write_substance ==
    /\ xml.pc = "idle"
    /\ xml.writes < MaxWrites
    /\ \E name \in {"substrate", "oxygen", "glucose"},
           path \in {"microenvironment_setup", "domain"} :
            \E new_values \in {SubstanceDict(name),
                               Without(SubstanceDict(name),
                                       "initial_condition")} :
                xml' = Written("write_substance", new_values, path, name,
                      write_substance(new_values, xml.tree, path, name))
    /\ UNCHANGED <<sweepVars, box, updater>>

call_write_cycle ==
    /\ xml.pc = "idle"
    /\ xml.writes < MaxWrites
    /\ \E new_values \in CycleDictChoices,
           path \in {"cycle", "domain"} :
            xml' = Written("write_cycle", new_values, path, "",
                  write_cycle(new_values, xml.tree, path))
    /\ UNCHANGED <<sweepVars, box, updater>>

call_write_death_model ==
    /\ xml.pc = "idle"
    /\ xml.writes < MaxWrites
    /\ \E new_values \in DeathDictChoices,
           path \in {"death", "domain"} :
            xml' = Written("write_death_model", new_values, path, "",
                  write_death_model(new_values, xml.tree, path))
    /\ UNCHANGED <<sweepVars, box, updater>>

call_write_volume ==
    /\ xml.pc = "idle"
    /\ xml.writes < MaxWrites
    /\ \E new_values \in {VolumeDict, Without(VolumeDict, "nuclear")},
           path \in {"volume", "mechanics"} :
            xml' = Written("write_volume", new_values, path, "",
                  write_volume(new_values, xml.tree, path))
    /\ UNCHANGED <<sweepVars, box, updater>>

call_write_mechanics ==
    /\ xml.pc = "idle"
    /\ xml.writes < MaxWrites
    /\ \E new_values \in {MechanicsDict,
                           Without(MechanicsDict,
                                   "cell_cell_repulsion_strength")},
           path \in {"mechanics", "motility"} :
            xml' = Written("write_mechanics", new_values, path, "",
                  write_mechanics(new_values, xml.tree, path))
    /\ UNCHANGED <<sweepVars, box, updater>>

call_write_motility ==
    /\ xml.pc = "idle"
    /\ xml.writes < MaxWrites
    /\ \E new_values \in {MotilityDict, Without(MotilityDict, "use_2d")},
           path \in {"motility", "volume"} :
            xml' = Written("write_motility", new_values, path, "",
                  write_motility(new_values, xml.tree, path))
    /\ UNCHANGED <<sweepVars, box, updater>>

call_write_secretion_substance ==
    /\ xml.pc = "idle"
    /\ xml.writes < MaxWrites
    /\ \E name \in {"substrate", "oxygen", "glucose"},
           path \in {"secretion", "motility"} :
            \E new_values \in {SecretionDict(name),
                               Without(SecretionDict(name), "uptake_rate")} :
                xml' = Written("write_secretion_substance", new_values, path, name,
                      write_secretion_substance(new_values, xml.tree, path, name))
    /\ UNCHANGED <<sweepVars, box, updater>>

call_write_custom_data ==
    /\ xml.pc = "idle"
    /\ xml.writes < MaxWrites
    /\ \E new_values \in {CustomList, UserList, SubSeq(CustomList, 1, 1)},
           path \in {"custom_data", "user_parameters", "domain"} :
            xml' = Written("write_custom_data", new_values, path, "",
                  write_custom_data(new_values, xml.tree, path))
    /\ UNCHANGED <<sweepVars, box, updater>>

\* parse_<section> on the node the last write was pointed at, as the tests
\* read back what they wrote.
ParseSame(call, tree) ==
    CASE call.fn = "write_domain" -> parse_domain(tree, call.path)
      [] call.fn = "write_overall" -> parse_overall(tree, call.path)
      [] call.fn = "write_substance" ->
             parse_substance(tree, call.path, call.name)
      [] call.fn = "write_cycle" -> parse_cycle(tree, call.path)
      [] call.fn = "write_death_model" ->
             IF "name" \in DOMAIN call.new_values
             THEN parse_death_model(tree, call.path, call.new_values["name"])
             ELSE parse_death_model(tree, call.path, "apoptosis")
      [] call.fn = "write_volume" -> parse_volume(tree, call.path)
      [] call.fn = "write_mechanics" -> parse_mechanics(tree, call.path)
      [] call.fn = "write_motility" -> parse_motility(tree, call.path)
      [] call.fn = "write_secretion_substance" ->
             parse_secretion_substance(tree, call.path, call.name)
      [] call.fn = "write_custom_data" -> parse_custom(tree, call.path)

call_parse ==
    /\ xml.pc = "written"
    /\ xml' = [xml EXCEPT !.pc = "idle",
                          !.parsed = ParseSame(xml.call, xml.tree)]
    /\ UNCHANGED <<sweepVars, box, updater>>

NextXml ==
    \/ call_write_domain
    \/ call_write_overall
    \/ call_write_substance
    \/ call_write_cycle
    \/ call_write_death_model
    \/ call_write_volume
    \/ call_write_mechanics
    \/ call_write_motility
    \/ call_write_secretion_substance
    \/ call_write_custom_data
    \/ call_parse

SpecXml == InitXml /\ [][NextXml]_vars

\* The tags each write function accepts at its path.
SectionTags ==
    [write_domain |-> {"domain"},
     write_overall |-> {"overall"},
     write_substance |-> {"microenvironment_setup"},
     write_cycle |-> {"cycle"},
     write_death_model |-> {"death"},
     write_volume |-> {"volume"},
     write_mechanics |-> {"mechanics"},
     write_motility |-> {"motility"},
     write_secretion_substance |-> {"secretion"},
     write_custom_data |-> {"custom_data", "user_parameters"}]

\* The keys of a complete dictionary of each section.
SectionKeys ==
    [write_domain |-> DOMAIN DomainDict,
     write_overall |-> DOMAIN OverallDict,
     write_substance |-> DOMAIN SubstanceDict("substrate"),
     write_cycle |-> DOMAIN CycleDict("phase_durations", <<>>),
     write_death_model |-> DOMAIN DeathDict("apoptosis", <<>>),
     write_volume |-> DOMAIN VolumeDict,
     write_mechanics |-> DOMAIN MechanicsDict,
     write_motility |-> DOMAIN MotilityDict,
     write_secretion_substance |-> DOMAIN SecretionDict("substrate")]

\* A write has been made and read back.
ReadBack == xml.pc = "idle" /\ xml.call.fn # "none"

\* The last write was given a complete dictionary and returned.
WroteComplete ==
    /\ xml.call.fn # "none"
    /\ xml.raised = "none"
    /\ \/ xml.call.fn = "write_custom_data"
       \/ DOMAIN xml.call.new_values = SectionKeys[xml.call.fn]

\* The named children of the written node other than the one written.
Siblings(node, call) ==
    CASE call.fn = "write_substance" ->
             [n \in (DOMAIN node.variable) \ {call.name} |-> node.variable[n]]
      [] call.fn = "write_secretion_substance" ->
             [n \in (DOMAIN node.substrate) \ {call.name} |-> node.substrate[n]]
      [] call.fn = "write_death_model" ->
             [n \in (DOMAIN node.model) \ {call.new_values["name"]} |->
                 node.model[n]]
      [] OTHER -> <<>>

Rejected ==
    LET call == xml.call
        node == xml.before[call.path]
        key  == IF call.fn = "write_cycle"
                THEN node.data_type
                ELSE node.model[call.new_values["name"]].data_type
        phases == IF call.fn = "write_cycle"
                  THEN node.phases
                  ELSE node.model[call.new_values["name"]].phases
    IN  \/ node.tag \notin SectionTags[call.fn]
        \/ /\ node.tag \in SectionTags[call.fn]
           /\ \/ /\ call.fn = "write_substance"
                 /\ call.name \notin DOMAIN node.variable
              \/ /\ call.fn = "write_secretion_substance"
                 /\ call.name \notin DOMAIN node.substrate
              \/ /\ call.fn = "write_death_model"
                 /\ "name" \in DOMAIN call.new_values
                 /\ call.new_values["name"] \notin DOMAIN node.model
              \/ /\ call.fn = "write_cycle"
                    \/ /\ call.fn = "write_death_model"
                       /\ "name" \in DOMAIN call.new_values
                       /\ call.new_values["name"] \in DOMAIN node.model
                 /\ key \in DOMAIN call.new_values
                 /\ call.new_values[key].some
                 /\ Len(call.new_values[key].v) # Len(phases)
              \/ /\ call.fn = "write_custom_data"
                 /\ VariablesNames(node.vars)
                        # [k \in 1..Len(call.new_values) |->
                               call.new_values[k].name]

\* C24: a write function raises ValueError whenever it is given an input it
\* has to reject, and whenever it raises ValueError the tree is exactly the
\* tree it was given.
C24_ValueErrorLeavesTree ==
    (xml.call.fn # "none") =>
        /\ Rejected => xml.raised = "ValueError"
        /\ xml.raised = "ValueError" => xml.tree = xml.before

====
